---------------------------- MODULE Spec2Model ----------------------------
(***************************************************************************)
(* Server side of the battle match of copilot-game:                        *)
(*   BattleRoom (rooms/BattleRoom.ts, first class of the file),            *)
(*   AttackHandler, the weapon strategies, CombatService,                  *)
(*   ProjectileService and PlayerService.                                  *)
(*                                                                         *)
(* Lengths are integers in decimetres (the source uses metres: 1 m = 10),  *)
(* times are integers in milliseconds.  A rotation is a number of quarter  *)
(* turns q, standing for the angle q * PI / 2, so that Math.sin and        *)
(* Math.cos of it are -1, 0 or 1.  Distances are compared squared, which   *)
(* is what sqrt(d2) <= r means for non-negative r.                         *)
(***************************************************************************)
EXTENDS Integers, Sequences, FiniteSets, TLC

VARIABLES
  players,              \* BattleState.players: sessionId -> Player
  joinOrder,            \* iteration order of the players map (insertion order)
  clients,              \* Room.clients: the connected sessions
  projectiles,          \* BattleState.projectiles: id -> Projectile
  countdown,            \* BattleState.countdown
  gameActive,           \* BattleState.gameActive
  gameEnded,            \* BattleState.gameEnded
  winnerId,             \* BattleState.winnerId
  winnerName,           \* BattleState.winnerName
  tickCounter,          \* BattleRoom.tickCounter
  needsCriticalBroadcast, \* BattleRoom.needsCriticalBroadcast
  projectileCounter,    \* RangedWeaponStrategy.projectileCounter
  activeSwings,         \* HitboxWeaponStrategy.activeSwings, per weapon type
  swingHitPlayers,      \* HitboxWeaponStrategy.swingHitPlayers, per weapon type
  swingTimers,          \* pending setTimeout callbacks of handleHitboxAttack
  endGameTimers,        \* pending clock.setTimeout callbacks of checkVictoryCondition
  now,                  \* Date.now()
  notices,              \* the messages sent by the last handler, in order
  thrown,               \* whether a handler has thrown an uncaught error
  peerProjectiles,      \* the projectile ids of a second BattleRoom of the process
  meshPosition,         \* client: playerMesh.position of the local player, <<x, z>>,
                        \*         <<>> before its mesh exists
  keys,                 \* client: InputService.keys, the set of the keys held down
  lastSentPosition,     \* client: InputService.lastSentPosition, <<>> for null
  lastSentTime,         \* client: InputService.lastSentTime
  clientNow,            \* client: Date.now() in the browser
  outbox,               \* client: the playerMove messages sent by the last frame
  interpolationBuffer,  \* client: PlayerMesh.interpolationBuffer of the remote player
  remotePosition,       \* client: mesh.position of the remote player, <<>> before its mesh exists
  lastKnownVelocity,    \* client: PlayerMesh.lastKnownVelocity of the remote player
  lastUpdateTime,       \* client: PlayerMesh.lastUpdateTime of the remote player
  isExtrapolating,      \* client: PlayerMesh.isExtrapolating of the remote player
  segment,              \* the arguments of a call of lineIntersectsSphere
  intersects            \* its result, <<>> before the call

remoteVars == <<interpolationBuffer, remotePosition, lastKnownVelocity, lastUpdateTime,
                isExtrapolating>>
clientVars == <<meshPosition, keys, lastSentPosition, lastSentTime, clientNow, outbox,
                remoteVars>>
segmentVars == <<segment, intersects>>

vars == <<players, joinOrder, clients, projectiles, countdown, gameActive,
          gameEnded, winnerId, winnerName, tickCounter, needsCriticalBroadcast,
          projectileCounter, activeSwings, swingHitPlayers, swingTimers,
          endGameTimers, now, notices, thrown, peerProjectiles, clientVars, segmentVars>>

serverVars == <<players, joinOrder, clients, projectiles, countdown, gameActive,
                gameEnded, winnerId, winnerName, tickCounter, needsCriticalBroadcast,
                projectileCounter, activeSwings, swingHitPlayers, swingTimers,
                endGameTimers, now, notices, thrown, peerProjectiles>>

matchVars == <<gameActive, gameEnded, winnerId, winnerName, endGameTimers>>
swingVars == <<activeSwings, swingHitPlayers, swingTimers>>

----------------------------------------------------------------------------
(* Configuration: config/game.config.ts                                    *)

SWORD == "SWORD"
SPEAR == "SPEAR"
BOW == "BOW"
WeaponType == {SWORD, SPEAR, BOW}

\* damage, range (dm), cooldown (ms)
WEAPONS ==
  [w \in WeaponType |->
     CASE w = SWORD -> [damage |-> 2, range |-> 10, cooldown |-> 1000]
       [] w = SPEAR -> [damage |-> 4, range |-> 25, cooldown |-> 1000]
       [] w = BOW   -> [damage |-> 7, range |-> 60, cooldown |-> 1000]]

PLAYER_MAX_HP == 10
COUNTDOWN_DURATION == 5
MAP_RADIUS == 30 * 10

broadcastRate == 2
SWING_CLEANUP_DELAY_MS == 500
PLAYER_HITBOX_RADIUS == 1 * 10
TargetCenterY == 9           \* 0.9 m, half the body height
ProjectileHitRadius == 5     \* hitRadius = 0.5 m
ProjectileSpawnOffset == 5   \* 0.5 m in front of the shooter

----------------------------------------------------------------------------
(* Bounds of the model                                                     *)

Sessions == {"p1", "p2"}
MaxElapsed == 2000       \* the clock runs from StartTime to StartTime + MaxElapsed
MaxTicks == 2            \* ticks of the game loop per match
ResolverHorizon == 2002  \* where the clock of SpecCooldown stops

StartTime == 5000        \* Date.now() when the room is created
MeleeElapsed == 1000     \* how long the clock of SpecMelee runs
ArrowElapsed == 1000     \* how long the clock of SpecArrow runs
DuelElapsed == 1000      \* how long the clock of SpecUnknown runs
SegmentSpan == 2         \* the x coordinates of SpecSegment run from -SegmentSpan to SegmentSpan
MaxRadius == 2           \* the largest sphere radius of SpecSegment
ClientStart == 5000      \* Date.now() of the browser when the page starts
MaxBuffer == 3           \* snapshots the interpolation buffer holds in SpecRemote
ClientElapsed == 260     \* how long the clock of SpecClient runs
MaxPeerShots == 2        \* arrows shot in the second BattleRoom

EmptyMap == [x \in {} |-> x]

Sin(q) == CASE q = 0 -> 0 [] q = 1 -> 1 [] q = 2 -> 0 [] q = 3 -> -1
Cos(q) == CASE q = 0 -> 1 [] q = 1 -> 0 [] q = 2 -> -1 [] q = 3 -> 0

\* a message: a and b are session ids, n a damage or a projectile id
Notice(type, a, b, reason, n) ==
  [type |-> type, a |-> a, b |-> b, reason |-> reason, n |-> n]

RECURSIVE SeqFilter(_, _)
SeqFilter(s, keep) ==
  IF s = <<>> THEN <<>>
  ELSE IF Head(s) \in keep THEN <<Head(s)>> \o SeqFilter(Tail(s), keep)
       ELSE SeqFilter(Tail(s), keep)

SeqRange(s) == {s[i] : i \in 1..Len(s)}

----------------------------------------------------------------------------
(* MapService.isOutOfBounds (services/map.service.ts): farther from the    *)
(* centre than the arena radius.  CombatService.isPlayerOutOfBounds is the *)
(* same test.                                                              *)

isOutOfBounds(x, z) == x * x + z * z > MAP_RADIUS * MAP_RADIUS

----------------------------------------------------------------------------
(* CombatService / PlayerService                                           *)

\* applyDamage without Math.max(0, ...) and without the reset of hp
applyDamage_noClamp(player, damage) ==
  IF player.hp - damage <= 0
  THEN [player EXCEPT !.hp = player.hp - damage, !.isAlive = FALSE]
  ELSE [player EXCEPT !.hp = player.hp - damage]

applyDamage(player, damage) ==
  LET hp1 == IF player.hp - damage > 0 THEN player.hp - damage ELSE 0
  IN IF hp1 <= 0 THEN [player EXCEPT !.hp = 0, !.isAlive = FALSE]
     ELSE [player EXCEPT !.hp = hp1]

\* countAlivePlayers counting every record of the roster
countAlivePlayers_roster(pl) == Cardinality(DOMAIN pl)

countAlivePlayers(pl) == Cardinality({s \in DOMAIN pl : pl[s].isAlive})

\* findWinner without the test of isAlive
findWinner_first(pl, ord) ==
  IF ord = <<>> THEN "" ELSE Head(ord)

\* the first alive player in iteration order, or "" (null)
findWinner(pl, ord) ==
  LET alive == SeqFilter(ord, {s \in DOMAIN pl : pl[s].isAlive})
  IN IF alive = <<>> THEN "" ELSE Head(alive)

----------------------------------------------------------------------------
(* BattleRoom                                                              *)

\* checkVictoryCondition ending the match when two players are left
checkVictoryCondition_two(pl, ord, out) ==
  IF ~gameActive \/ gameEnded
  THEN /\ UNCHANGED matchVars
       /\ notices' = out
  ELSE IF countAlivePlayers(pl) <= 2
  THEN LET winner == findWinner(pl, ord)
       IN /\ gameEnded' = TRUE
          /\ gameActive' = FALSE
          /\ winnerId' = (IF winner # "" THEN winner ELSE winnerId)
          /\ winnerName' = (IF winner # "" THEN winner ELSE winnerName)
          /\ notices' = out \o
               <<Notice("gameEnded", winner, IF winner # "" THEN winner ELSE "Nessuno", "", 0)>>
          /\ endGameTimers' = endGameTimers + 1
  ELSE /\ UNCHANGED matchVars
       /\ notices' = out

\* checkVictoryCondition without its opening test of gameActive and gameEnded
checkVictoryCondition_noGuard(pl, ord, out) ==
  IF Cardinality({s \in DOMAIN pl : pl[s].isAlive}) <= 1
  THEN /\ gameEnded' = TRUE
       /\ gameActive' = FALSE
       /\ winnerId' = winnerId
       /\ winnerName' = winnerName
       /\ notices' = out \o <<Notice("gameEnded", "", "Nessuno", "", 0)>>
       /\ endGameTimers' = endGameTimers + 1
  ELSE /\ UNCHANGED matchVars
       /\ notices' = out

\* checkVictoryCondition, run on the players map pl after the handler's own
\* changes; out are the notices the handler has sent so far.
checkVictoryCondition(pl, ord, out) ==
  IF ~gameActive \/ gameEnded
  THEN /\ UNCHANGED matchVars
       /\ notices' = out
  ELSE IF countAlivePlayers(pl) <= 1
  THEN LET winner == findWinner(pl, ord)
       IN /\ gameEnded' = TRUE
          /\ gameActive' = FALSE
          /\ winnerId' = (IF winner # "" THEN winner ELSE winnerId)
          /\ winnerName' = (IF winner # "" THEN winner ELSE winnerName)
          /\ notices' = out \o
               <<Notice("gameEnded", winner, IF winner # "" THEN winner ELSE "Nessuno", "", 0)>>
          /\ endGameTimers' = endGameTimers + 1
  ELSE /\ UNCHANGED matchVars
       /\ notices' = out

\* The room exists while a client is connected (it is disposed when the last
\* one leaves); before the first join it has just been created.
RoomOpen == clients # {} \/ DOMAIN players = {}

\* no mesh of a remote player yet
RemoteIdle ==
  /\ interpolationBuffer = <<>>
  /\ remotePosition = <<>>
  /\ lastKnownVelocity = <<0, 0>>
  /\ lastUpdateTime = 0
  /\ isExtrapolating = FALSE

\* the InputService of a page that has no mesh of the local player
InputIdle ==
  /\ meshPosition = <<>>
  /\ keys = {}
  /\ lastSentPosition = <<>>
  /\ lastSentTime = 0
  /\ outbox = <<>>

\* the client before the page has joined a room
ClientIdle ==
  /\ InputIdle
  /\ clientNow = 0
  /\ RemoteIdle

SegmentIdle ==
  /\ segment = <<>>
  /\ intersects = <<>>

ServerInit(t) ==
  /\ players = EmptyMap
  /\ joinOrder = <<>>
  /\ clients = {}
  /\ projectiles = EmptyMap
  /\ countdown = COUNTDOWN_DURATION
  /\ gameActive = FALSE
  /\ gameEnded = FALSE
  /\ winnerId = ""
  /\ winnerName = ""
  /\ tickCounter = 0
  /\ needsCriticalBroadcast = FALSE
  /\ projectileCounter = 0
  /\ activeSwings = [w \in {SWORD, SPEAR} |-> {}]
  /\ swingHitPlayers = [w \in {SWORD, SPEAR} |-> EmptyMap]
  /\ swingTimers = {}
  /\ endGameTimers = 0
  /\ now = t
  /\ notices = <<>>
  /\ thrown = FALSE
  /\ peerProjectiles = {}

InitAt(t) == ServerInit(t) /\ ClientIdle /\ SegmentIdle

Init == InitAt(StartTime)

\* a snapshot that leaves the players that are not alive out
serializePlayerList_alive(pl, ord) ==
  LET live == SeqFilter(ord, {s \in DOMAIN pl : pl[s].isAlive})
  IN [i \in 1..Len(live) |->
        [sessionId |-> live[i], x |-> pl[live[i]].x, z |-> pl[live[i]].z,
         rotation |-> pl[live[i]].rotation, weaponType |-> pl[live[i]].weaponType,
         hp |-> pl[live[i]].hp, maxHp |-> pl[live[i]].maxHp,
         isAlive |-> pl[live[i]].isAlive]]

\* PlayerService.serializePlayerList: one entry per record of the map, in
\* the order of the map
serializePlayerList(pl, ord) ==
  [i \in 1..Len(ord) |->
     [sessionId |-> ord[i], x |-> pl[ord[i]].x, z |-> pl[ord[i]].z,
      rotation |-> pl[ord[i]].rotation, weaponType |-> pl[ord[i]].weaponType,
      hp |-> pl[ord[i]].hp, maxHp |-> pl[ord[i]].maxHp,
      isAlive |-> pl[ord[i]].isAlive]]

\* the 'playerList' message sent to the client a ("" for a broadcast)
Snapshot(a, pl, ord) ==
  [type |-> "playerList", a |-> a, b |-> "", reason |-> "", n |-> 0,
   players |-> serializePlayerList(pl, ord)]

\* onJoin(client, {name, weaponType}); (x, z) and q are the random spawn
\* position and rotation.
onJoin(s, weaponType, x, z, q) ==
  /\ RoomOpen
  /\ s \notin DOMAIN players
  /\ ~isOutOfBounds(x, z)
  /\ players' = [t \in DOMAIN players \cup {s} |->
                   IF t = s
                   THEN [weaponType |-> weaponType, x |-> x, z |-> z, rotation |-> q,
                         hp |-> PLAYER_MAX_HP, maxHp |-> PLAYER_MAX_HP,
                         isAlive |-> TRUE, lastAttackTime |-> 0, isAttacking |-> FALSE]
                   ELSE players[t]]
  /\ joinOrder' = Append(joinOrder, s)
  /\ clients' = clients \cup {s}
  /\ notices' = <<Snapshot(s, players', joinOrder'), Snapshot("", players', joinOrder')>>
  /\ UNCHANGED <<projectiles, countdown, tickCounter, needsCriticalBroadcast,
                 projectileCounter, now,
                 thrown, peerProjectiles, clientVars, segmentVars>>
  /\ UNCHANGED matchVars
  /\ UNCHANGED swingVars

\* onLeave(client, consented)
\* onLeave deleting the record of the player who left
onLeave_remove(s) ==
  /\ s \in clients
  /\ clients' = clients \ {s}
  /\ LET pl == [t \in DOMAIN players \ {s} |-> players[t]]
     IN /\ players' = pl
        /\ checkVictoryCondition(pl, SeqFilter(joinOrder, DOMAIN pl), <<>>)
  /\ UNCHANGED <<joinOrder, projectiles, countdown, tickCounter,
                 needsCriticalBroadcast, projectileCounter, now,
                 thrown, peerProjectiles, clientVars, segmentVars>>
  /\ UNCHANGED swingVars

onLeave(s) ==
  /\ s \in clients
  /\ clients' = clients \ {s}
  /\ LET pl == IF s \in DOMAIN players
               THEN [players EXCEPT ![s].isAlive = FALSE, ![s].hp = 0]
               ELSE players
     IN /\ players' = pl
        /\ checkVictoryCondition(pl, joinOrder, <<>>)
  /\ UNCHANGED <<joinOrder, projectiles, countdown, tickCounter,
                 needsCriticalBroadcast, projectileCounter, now,
                 thrown, peerProjectiles, clientVars, segmentVars>>
  /\ UNCHANGED swingVars

\* the clock.setInterval callback of startCountdown; clock.clear() stops it at 0
\* the interval callback when the interval is cleared one second late
countdownTick_lateClear ==
  /\ RoomOpen
  /\ countdown >= 0
  /\ countdown' = countdown - 1
  /\ IF countdown - 1 <= 0
     THEN /\ gameActive' = TRUE
          /\ notices' = <<Notice("gameStarted", "", "", "", 0)>>
     ELSE /\ gameActive' = gameActive
          /\ notices' = <<>>
  /\ UNCHANGED <<players, joinOrder, clients, projectiles, gameEnded, winnerId,
                 winnerName, tickCounter, needsCriticalBroadcast, projectileCounter,
                 endGameTimers, now,
                 thrown, peerProjectiles, clientVars, segmentVars>>
  /\ UNCHANGED swingVars

countdownTick ==
  /\ RoomOpen
  /\ countdown > 0
  /\ countdown' = countdown - 1
  /\ IF countdown - 1 <= 0
     THEN /\ gameActive' = TRUE
          /\ notices' = <<Notice("gameStarted", "", "", "", 0)>>
     ELSE /\ gameActive' = gameActive
          /\ notices' = <<>>
  /\ UNCHANGED <<players, joinOrder, clients, projectiles, gameEnded, winnerId,
                 winnerName, tickCounter, needsCriticalBroadcast, projectileCounter,
                 endGameTimers, now,
                 thrown, peerProjectiles, clientVars, segmentVars>>
  /\ UNCHANGED swingVars

----------------------------------------------------------------------------
(* CombatService.lineIntersectsSphere.  Points are <<x, y, z>>.  With       *)
(* L = |lineVec|^2 and d = toSphere . lineVec the code clamps t = d / L to  *)
(* [0, 1] and compares the squared distance from the closest point with    *)
(* radius^2; for 0 < d < L that distance is |toSphere|^2 - d^2 / L, and    *)
(* the comparison is multiplied through by L > 0 to stay in the integers.  *)

Sub(a, b) == <<a[1] - b[1], a[2] - b[2], a[3] - b[3]>>
Dot(a, b) == a[1] * b[1] + a[2] * b[2] + a[3] * b[3]

\* the distance from the infinite line through the two points, t not clamped
lineIntersectsSphere_unclamped(lineStart, lineEnd, sphereCenter, sphereRadius) ==
  LET lineVec == Sub(lineEnd, lineStart)
      toSphere == Sub(sphereCenter, lineStart)
      lineLengthSq == Dot(lineVec, lineVec)
      d == Dot(toSphere, lineVec)
      r2 == sphereRadius * sphereRadius
  IN IF lineLengthSq = 0 THEN Dot(toSphere, toSphere) <= r2
     ELSE Dot(toSphere, toSphere) * lineLengthSq - d * d <= r2 * lineLengthSq

lineIntersectsSphere(lineStart, lineEnd, sphereCenter, sphereRadius) ==
  LET lineVec == Sub(lineEnd, lineStart)
      toSphere == Sub(sphereCenter, lineStart)
      lineLengthSq == Dot(lineVec, lineVec)
      d == Dot(toSphere, lineVec)
      r2 == sphereRadius * sphereRadius
  IN IF lineLengthSq = 0 THEN Dot(toSphere, toSphere) <= r2
     ELSE IF d <= 0 THEN Dot(toSphere, toSphere) <= r2
     ELSE IF d >= lineLengthSq
          THEN Dot(Sub(sphereCenter, lineEnd), Sub(sphereCenter, lineEnd)) <= r2
     ELSE Dot(toSphere, toSphere) * lineLengthSq - d * d <= r2 * lineLengthSq

\* CombatService.handleWeaponHitboxAttack with checkCooldown = false: the
\* targets the segment touches, in iteration order
handleWeaponHitboxAttack(attacker, weaponTip, weaponBase, pl, ord) ==
  IF pl[attacker].weaponType \notin WeaponType THEN <<>>
  ELSE SeqFilter(ord,
         {t \in DOMAIN pl :
            /\ t # attacker
            /\ pl[t].isAlive
            /\ lineIntersectsSphere(weaponBase, weaponTip,
                                    <<pl[t].x, TargetCenterY, pl[t].z>>,
                                    PLAYER_HITBOX_RADIUS)})

----------------------------------------------------------------------------
(* Weapon strategies                                                       *)

\* canAttack with > in place of >=
canAttack_strict(player, weaponType, currentTime) ==
  currentTime - player.lastAttackTime > WEAPONS[weaponType].cooldown

\* MeleeWeaponStrategy.canAttack, HitboxWeaponStrategy.canAttack and
\* RangedWeaponStrategy.canAttack are the same test
canAttack(player, weaponType, currentTime) ==
  currentTime - player.lastAttackTime >= WEAPONS[weaponType].cooldown

getDistanceSq(x1, z1, x2, z2) == (x1 - x2) * (x1 - x2) + (z1 - z2) * (z1 - z2)

\* handleAttack without the test of the facing direction
meleeTargets_noFacing(attacker, pl) ==
  LET a == pl[attacker]
      range == WEAPONS[a.weaponType].range
  IN {t \in DOMAIN pl :
        /\ t # attacker
        /\ pl[t].isAlive
        /\ getDistanceSq(a.x, a.z, pl[t].x, pl[t].z) <= range * range}

\* the targets MeleeWeaponStrategy.handleAttack damages
meleeTargets(attacker, pl) ==
  LET a == pl[attacker]
      range == WEAPONS[a.weaponType].range
  IN {t \in DOMAIN pl :
        /\ t # attacker
        /\ pl[t].isAlive
        /\ getDistanceSq(a.x, a.z, pl[t].x, pl[t].z) <= range * range
        /\ Sin(a.rotation) * (pl[t].x - a.x) + Cos(a.rotation) * (pl[t].z - a.z) > 0}

\* ProjectileService.createProjectile, after the cooldown test
\* createProjectile counting the spawn offset as distance travelled
createProjectile_offset(shooter, sessionId) ==
  [ownerId |-> sessionId,
   x |-> shooter.x + Sin(shooter.rotation) * ProjectileSpawnOffset,
   z |-> shooter.z + Cos(shooter.rotation) * ProjectileSpawnOffset,
   directionX |-> Sin(shooter.rotation),
   directionZ |-> Cos(shooter.rotation),
   damage |-> WEAPONS[BOW].damage,
   range |-> WEAPONS[BOW].range,
   distanceTraveled |-> ProjectileSpawnOffset]

createProjectile(shooter, sessionId) ==
  [ownerId |-> sessionId,
   x |-> shooter.x + Sin(shooter.rotation) * ProjectileSpawnOffset,
   z |-> shooter.z + Cos(shooter.rotation) * ProjectileSpawnOffset,
   directionX |-> Sin(shooter.rotation),
   directionZ |-> Cos(shooter.rotation),
   damage |-> WEAPONS[BOW].damage,
   range |-> WEAPONS[BOW].range,
   distanceTraveled |-> 0]

----------------------------------------------------------------------------
(* ProjectileService                                                       *)

\* updateProjectile: the moved projectile; distance = speed * deltaTime
\* updateProjectile moving the projectile without counting the distance
updateProjectile_uncounted(p, distance) ==
  [p EXCEPT !.x = p.x + p.directionX * distance,
            !.z = p.z + p.directionZ * distance]

updateProjectile(p, distance) ==
  [p EXCEPT !.x = p.x + p.directionX * distance,
            !.z = p.z + p.directionZ * distance,
            !.distanceTraveled = p.distanceTraveled + distance]

\* the removal test without the test of the arena
shouldRemove_rangeOnly(p) ==
  p.distanceTraveled >= p.range

shouldRemove(p) ==
  \/ p.distanceTraveled >= p.range
  \/ isOutOfBounds(p.x, p.z)

\* checkProjectileCollision without the exclusion of the owner
checkProjectileCollision_owner(p, pl, ord) ==
  LET hit == SeqFilter(ord,
               {t \in DOMAIN pl :
                  /\ pl[t].isAlive
                  /\ getDistanceSq(p.x, p.z, pl[t].x, pl[t].z)
                       <= ProjectileHitRadius * ProjectileHitRadius})
  IN IF hit = <<>> THEN "" ELSE Head(hit)

\* checkProjectileCollision: the first player in iteration order that is
\* hit, or "" (null)
checkProjectileCollision(p, pl, ord) ==
  LET hit == SeqFilter(ord,
               {t \in DOMAIN pl :
                  /\ t # p.ownerId
                  /\ pl[t].isAlive
                  /\ getDistanceSq(p.x, p.z, pl[t].x, pl[t].z)
                       <= ProjectileHitRadius * ProjectileHitRadius})
  IN IF hit = <<>> THEN "" ELSE Head(hit)

RECURSIVE SortedIds(_)
SortedIds(ids) ==
  IF ids = {} THEN <<>>
  ELSE LET m == CHOOSE i \in ids : \A j \in ids : i <= j
       IN <<m>> \o SortedIds(ids \ {m})

\* updateAllProjectiles: projectiles are visited in insertion order, and a
\* hit changes the players the later projectiles see
RECURSIVE updateAllProjectiles(_, _, _, _, _)
updateAllProjectiles(ids, prj, pl, ord, distance) ==
  IF ids = <<>>
  THEN [projectiles |-> prj, players |-> pl, toRemove |-> <<>>, hits |-> <<>>]
  ELSE LET id == Head(ids)
           p == updateProjectile(prj[id], distance)
           prj1 == [prj EXCEPT ![id] = p]
           target == IF shouldRemove(p) THEN "" ELSE checkProjectileCollision(p, pl, ord)
           pl1 == IF target = "" THEN pl
                  ELSE [pl EXCEPT ![target] = applyDamage(pl[target], p.damage)]
           rest == updateAllProjectiles(Tail(ids), prj1, pl1, ord, distance)
       IN [projectiles |-> rest.projectiles,
           players |-> rest.players,
           toRemove |-> (IF shouldRemove(p) \/ target # "" THEN <<id>> ELSE <<>>)
                          \o rest.toRemove,
           hits |-> (IF target # ""
                     THEN <<[projectileId |-> id, playerId |-> target, damage |-> p.damage]>>
                     ELSE <<>>) \o rest.hits]

----------------------------------------------------------------------------
(* BattleRoom: the game loop and the message handlers                      *)

\* the boundary check that clears isAlive and leaves hp as it was
boundaryCheck_keepHp(player) ==
  IF ~player.isAlive THEN player
  ELSE IF isOutOfBounds(player.x, player.z)
       THEN [player EXCEPT !.isAlive = FALSE, !.isAttacking = FALSE]
       ELSE [player EXCEPT !.isAttacking = FALSE]

\* the boundary check with >= in place of >
boundaryCheck_rim(player) ==
  IF ~player.isAlive THEN player
  ELSE IF player.x * player.x + player.z * player.z >= MAP_RADIUS * MAP_RADIUS
       THEN [player EXCEPT !.isAlive = FALSE, !.hp = 0, !.isAttacking = FALSE]
       ELSE [player EXCEPT !.isAttacking = FALSE]

\* the boundary check that lets the player's body overhang the rim
boundaryCheck_margin(player) ==
  IF ~player.isAlive THEN player
  ELSE IF player.x * player.x + player.z * player.z
            > (MAP_RADIUS + PLAYER_HITBOX_RADIUS) * (MAP_RADIUS + PLAYER_HITBOX_RADIUS)
       THEN [player EXCEPT !.isAlive = FALSE, !.hp = 0, !.isAttacking = FALSE]
       ELSE [player EXCEPT !.isAttacking = FALSE]

\* update(deltaTime): the boundary check of one player
boundaryCheck(player) ==
  IF ~player.isAlive THEN player
  ELSE IF isOutOfBounds(player.x, player.z)
       THEN [player EXCEPT !.isAlive = FALSE, !.hp = 0, !.isAttacking = FALSE]
       ELSE [player EXCEPT !.isAttacking = FALSE]

\* the playerHit notices of the tick's projectile hits; the projectiles have
\* been deleted from prj when the owner is looked up
hitNotices(hits, prj) ==
  [i \in 1..Len(hits) |->
     Notice("playerHit",
            IF hits[i].projectileId \in DOMAIN prj THEN prj[hits[i].projectileId].ownerId ELSE "",
            hits[i].playerId, BOW, hits[i].damage)]

eliminatedNotices(ids, killerId, reason) ==
  [i \in 1..Len(ids) |-> Notice("playerEliminated", ids[i], killerId, reason, 0)]

\* a snapshot on every tick
shouldBroadcast_always(counter, critical) == TRUE

shouldBroadcast(counter, critical) == counter % broadcastRate = 0 \/ critical

\* update(deltaTime), with distance = projectile.speed * deltaTime / 1000,
\* leaving the tick counter at n
updateTo(distance, n) ==
  /\ RoomOpen
  /\ gameActive /\ ~gameEnded
  /\ tickCounter' = n
  /\ LET r == updateAllProjectiles(SortedIds(DOMAIN projectiles), projectiles,
                                   players, joinOrder, distance)
         prj == [id \in DOMAIN r.projectiles \ SeqRange(r.toRemove) |-> r.projectiles[id]]
         out == SeqFilter(joinOrder,
                  {s \in DOMAIN players :
                     r.players[s].isAlive /\ isOutOfBounds(r.players[s].x, r.players[s].z)})
         pl == [s \in DOMAIN players |-> boundaryCheck(r.players[s])]
         critical == needsCriticalBroadcast \/ r.hits # <<>> \/ out # <<>>
         sent == hitNotices(r.hits, prj) \o eliminatedNotices(out, "", "out_of_bounds")
                   \o (IF shouldBroadcast(n, critical)
                       THEN <<Snapshot("", pl, joinOrder)>> ELSE <<>>)
     IN /\ projectiles' = prj
        /\ players' = pl
        /\ needsCriticalBroadcast' =
             (IF shouldBroadcast(n, critical) THEN FALSE ELSE critical)
        /\ checkVictoryCondition(pl, joinOrder, sent)
  /\ UNCHANGED <<joinOrder, clients, countdown, projectileCounter, now,
                 thrown, peerProjectiles, clientVars, segmentVars>>
  /\ UNCHANGED swingVars

\* a tick of the game loop, of which a match runs at most MaxTicks
update(distance) ==
  /\ tickCounter < MaxTicks
  /\ updateTo(distance, tickCounter + 1)

\* the opening test without the test of the phase
accepted_anyPhase(s) == s \in DOMAIN players /\ players[s].isAlive

\* the test that opens handlePlayerMove, handlePlayerAttack and handleWeaponSwing
accepted(s) == s \in DOMAIN players /\ players[s].isAlive /\ gameActive

ignored ==
  /\ notices' = <<>>
  /\ UNCHANGED <<players, joinOrder, clients, projectiles, countdown, tickCounter,
                 needsCriticalBroadcast, projectileCounter, now,
                 thrown, peerProjectiles, clientVars, segmentVars>>
  /\ UNCHANGED matchVars
  /\ UNCHANGED swingVars

\* a handler that throws before it has changed anything
threw ==
  /\ thrown' = TRUE
  /\ notices' = <<>>
  /\ UNCHANGED <<players, joinOrder, clients, projectiles, countdown, tickCounter,
                 needsCriticalBroadcast, projectileCounter, now, peerProjectiles,
                 clientVars, segmentVars>>
  /\ UNCHANGED matchVars
  /\ UNCHANGED swingVars

\* handlePlayerMove(client, {x, z, rotation})
handlePlayerMove(s, x, z, q) ==
  /\ RoomOpen
  /\ IF ~accepted(s) THEN ignored
     ELSE /\ players' = [players EXCEPT ![s].x = x, ![s].z = z, ![s].rotation = q]
          /\ notices' = <<>>
          /\ UNCHANGED <<joinOrder, clients, projectiles, countdown, tickCounter,
                         needsCriticalBroadcast, projectileCounter, now,
                 thrown, peerProjectiles, clientVars, segmentVars>>
          /\ UNCHANGED matchVars
          /\ UNCHANGED swingVars

\* AttackHandler.handleStandardAttack for the bow:
\* RangedWeaponStrategy.createProjectile
rangedAttack(s) ==
  IF ~canAttack(players[s], BOW, now) THEN ignored
  ELSE /\ projectileCounter' = projectileCounter + 1
       /\ players' = [players EXCEPT ![s].lastAttackTime = now, ![s].isAttacking = TRUE]
       /\ projectiles' = [id \in DOMAIN projectiles \cup {projectileCounter} |->
                            IF id = projectileCounter
                            THEN createProjectile(players[s], s)
                            ELSE projectiles[id]]
       /\ notices' = <<Notice("projectileCreated", s, "", "", projectileCounter)>>
       /\ UNCHANGED <<joinOrder, clients, countdown, tickCounter,
                      needsCriticalBroadcast, now,
                 thrown, peerProjectiles, clientVars, segmentVars>>
       /\ UNCHANGED matchVars
       /\ UNCHANGED swingVars

hitNotice(type, s, t, pl) ==
  <<Notice(type, s, t, pl[s].weaponType, WEAPONS[pl[s].weaponType].damage)>>
    \o (IF ~pl[t].isAlive THEN <<Notice("playerEliminated", t, s, "killed", 0)>> ELSE <<>>)

RECURSIVE hitNoticesOf(_, _, _, _)
hitNoticesOf(type, s, targets, pl) ==
  IF targets = <<>> THEN <<>>
  ELSE hitNotice(type, s, Head(targets), pl) \o hitNoticesOf(type, s, Tail(targets), pl)

\* AttackHandler.handleStandardAttack for a melee weapon:
\* MeleeWeaponStrategy.handleAttack, then the notices of handlePlayerAttack
\* a standard melee attack that leaves lastAttackTime as it is
meleeAttack_noStamp(s) ==
  LET w == players[s].weaponType
  IN IF ~canAttack(players[s], w, now) THEN ignored
     ELSE LET hit == meleeTargets(s, players)
              pl == [t \in DOMAIN players |->
                       IF t = s
                       THEN [players[t] EXCEPT !.isAttacking = TRUE]
                       ELSE IF t \in hit
                            THEN applyDamage(players[t], WEAPONS[w].damage)
                            ELSE players[t]]
              hitPlayers == SeqFilter(joinOrder, hit)
          IN /\ players' = pl
             /\ notices' = hitNoticesOf("playerHit", s, hitPlayers, pl)
             /\ needsCriticalBroadcast' = (needsCriticalBroadcast \/ hitPlayers # <<>>)
             /\ UNCHANGED <<joinOrder, clients, projectiles, countdown, tickCounter,
                            projectileCounter, now,
                 thrown, peerProjectiles, clientVars, segmentVars>>
             /\ UNCHANGED matchVars
             /\ UNCHANGED swingVars

meleeAttack(s) ==
  LET w == players[s].weaponType
  IN IF ~canAttack(players[s], w, now) THEN ignored
     ELSE LET hit == meleeTargets(s, players)
              pl == [t \in DOMAIN players |->
                       IF t = s
                       THEN [players[t] EXCEPT !.lastAttackTime = now, !.isAttacking = TRUE]
                       ELSE IF t \in hit
                            THEN applyDamage(players[t], WEAPONS[w].damage)
                            ELSE players[t]]
              hitPlayers == SeqFilter(joinOrder, hit)
          IN /\ players' = pl
             /\ notices' = hitNoticesOf("playerHit", s, hitPlayers, pl)
             /\ needsCriticalBroadcast' = (needsCriticalBroadcast \/ hitPlayers # <<>>)
             /\ UNCHANGED <<joinOrder, clients, projectiles, countdown, tickCounter,
                            projectileCounter, now,
                 thrown, peerProjectiles, clientVars, segmentVars>>
             /\ UNCHANGED matchVars
             /\ UNCHANGED swingVars

\* handlePlayerAttack(client, message).  A weapon type that is not configured
\* makes canAttack throw on WEAPONS[weaponType].cooldown before any change.
handlePlayerAttack(s) ==
  /\ RoomOpen
  /\ IF ~accepted(s) THEN ignored
     ELSE IF players[s].weaponType = BOW THEN rangedAttack(s)
     ELSE IF players[s].weaponType \notin WeaponType THEN threw
     ELSE meleeAttack(s)

\* the hits of a sample with nothing remembered of the swing's earlier hits
newSwingHits_all(hitPlayers, alreadyHit) == hitPlayers

\* HitboxWeaponStrategy.handleHitboxAttack: the targets of this sample that
\* the swing has not hit before
newSwingHits(hitPlayers, alreadyHit) ==
  SeqFilter(hitPlayers, SeqRange(hitPlayers) \ alreadyHit)

\* handleWeaponSwing(client, {tipPosition, basePosition}) with
\* AttackHandler.handleHitboxAttack and HitboxWeaponStrategy.handleHitboxAttack
handleWeaponSwing(s, weaponTip, weaponBase) ==
  /\ RoomOpen
  /\ IF ~accepted(s) THEN ignored
     ELSE IF players[s].weaponType = BOW THEN ignored
     ELSE
       LET w == players[s].weaponType
           hasStrategy == w \in DOMAIN activeSwings
           isFirstSwing == ~(hasStrategy /\ s \in activeSwings[w])
           started == IF isFirstSwing
                      THEN <<Notice("weaponSwingStarted", s, "", w, 0)>> ELSE <<>>
       IN IF ~hasStrategy \/ (isFirstSwing /\ ~canAttack(players[s], w, now))
          THEN /\ notices' = started
               /\ UNCHANGED <<players, joinOrder, clients, projectiles, countdown,
                              tickCounter, needsCriticalBroadcast, projectileCounter, now,
                 thrown, peerProjectiles, clientVars, segmentVars>>
               /\ UNCHANGED matchVars
               /\ UNCHANGED swingVars
          ELSE
            LET pl0 == IF isFirstSwing
                       THEN [players EXCEPT ![s].lastAttackTime = now,
                                            ![s].isAttacking = TRUE]
                       ELSE players
                alreadyHit == IF isFirstSwing THEN {} ELSE swingHitPlayers[w][s]
                hitPlayers == handleWeaponHitboxAttack(s, weaponTip, weaponBase, pl0, joinOrder)
                newHits == newSwingHits(hitPlayers, alreadyHit)
                pl == [t \in DOMAIN pl0 |->
                         IF t \in SeqRange(newHits)
                         THEN applyDamage(pl0[t], WEAPONS[w].damage) ELSE pl0[t]]
            IN /\ players' = pl
               /\ activeSwings' = [activeSwings EXCEPT ![w] = @ \cup {s}]
               /\ swingHitPlayers' =
                    [swingHitPlayers EXCEPT ![w] =
                       [a \in DOMAIN @ \cup {s} |->
                          IF a = s THEN alreadyHit \cup SeqRange(newHits) ELSE @[a]]]
               /\ swingTimers' =
                    (IF isFirstSwing
                     THEN swingTimers \cup
                            {[weaponType |-> w, sessionId |-> s,
                              due |-> now + SWING_CLEANUP_DELAY_MS]}
                     ELSE swingTimers)
               /\ notices' = started \o hitNoticesOf("playerAttacked", s, newHits, pl)
               /\ needsCriticalBroadcast' = (needsCriticalBroadcast \/ newHits # <<>>)
               /\ UNCHANGED <<joinOrder, clients, projectiles, countdown, tickCounter,
                              projectileCounter, now,
                 thrown, peerProjectiles, clientVars, segmentVars>>
               /\ UNCHANGED matchVars

\* a timer callback that ends every swing of the strategy
swingCleanup_all(t) ==
  /\ t \in swingTimers
  /\ now >= t.due
  /\ swingTimers' = swingTimers \ {t}
  /\ activeSwings' = [activeSwings EXCEPT ![t.weaponType] = {}]
  /\ swingHitPlayers' = [swingHitPlayers EXCEPT ![t.weaponType] = <<>>]
  /\ notices' = <<>>
  /\ UNCHANGED <<players, joinOrder, clients, projectiles, countdown, tickCounter,
                 needsCriticalBroadcast, projectileCounter, now,
                 thrown, peerProjectiles, clientVars, segmentVars>>
  /\ UNCHANGED matchVars

\* the timer callback without the deletion from activeSwings
swingCleanup_keepFlag(t) ==
  /\ t \in swingTimers
  /\ now >= t.due
  /\ swingTimers' = swingTimers \ {t}
  /\ swingHitPlayers' =
       [swingHitPlayers EXCEPT ![t.weaponType] =
          [a \in DOMAIN @ \ {t.sessionId} |-> @[a]]]
  /\ notices' = <<>>
  /\ UNCHANGED <<players, joinOrder, clients, projectiles, countdown, tickCounter,
                 needsCriticalBroadcast, projectileCounter, now, activeSwings,
                 thrown, peerProjectiles, clientVars, segmentVars>>
  /\ UNCHANGED matchVars

\* the setTimeout callback of HitboxWeaponStrategy.handleHitboxAttack
swingCleanup(t) ==
  /\ t \in swingTimers
  /\ now >= t.due
  /\ swingTimers' = swingTimers \ {t}
  /\ activeSwings' = [activeSwings EXCEPT ![t.weaponType] = @ \ {t.sessionId}]
  /\ swingHitPlayers' =
       [swingHitPlayers EXCEPT ![t.weaponType] =
          [a \in DOMAIN @ \ {t.sessionId} |-> @[a]]]
  /\ notices' = <<>>
  /\ UNCHANGED <<players, joinOrder, clients, projectiles, countdown, tickCounter,
                 needsCriticalBroadcast, projectileCounter, now,
                 thrown, peerProjectiles, clientVars, segmentVars>>
  /\ UNCHANGED matchVars

\* time passes; a timer that is due runs before the clock moves on.  No
\* handler reads the clock unless the match is active, so the model follows
\* the clock only then and while a swing timer is pending.
advanceClock(d, limit) ==
  /\ gameActive \/ swingTimers # {}
  /\ \A t \in swingTimers : t.due > now
  /\ now + d <= limit
  /\ now' = now + d
  /\ notices' = <<>>
  /\ UNCHANGED <<thrown, peerProjectiles, clientVars, segmentVars>>
  /\ UNCHANGED <<players, joinOrder, clients, projectiles, countdown, tickCounter,
                 needsCriticalBroadcast, projectileCounter>>
  /\ UNCHANGED matchVars
  /\ UNCHANGED swingVars

----------------------------------------------------------------------------
(* The inputs of the model                                                 *)

\* the weapon each session picks in the lobby
WeaponOf(s) == IF s = "p1" THEN SPEAR ELSE BOW

\* poses <<x, z, rotation>> a client reports: p1 stands one metre inside the
\* rim facing east and may step just past the rim, p2 stands on the rim
\* facing west
Inside(s) == IF s = "p1" THEN <<MAP_RADIUS - 10, 0, 1>> ELSE <<MAP_RADIUS, 0, 3>>
Outside(s) == <<MAP_RADIUS + 1, 0, 1>>
Poses(s) == IF s = "p1" THEN {Inside(s), Outside(s)} ELSE {Inside(s)}
\* weapon segments <<base, tip>> a client reports
SwingSamples == {<<<<MAP_RADIUS - 10, 9, 0>>, <<MAP_RADIUS, 9, 0>>>>}
\* distances a projectile covers in one tick
StepDistances == {5, 60}
ClockSteps == {500}
ResolverClockSteps == {499, 500, 501}

Join == \E s \in Sessions : onJoin(s, WeaponOf(s), Inside(s)[1], Inside(s)[2], Inside(s)[3])
Leave == \E s \in Sessions : onLeave(s)
Tick == \E d \in StepDistances : update(d)
Move == \E s \in Sessions : \E p \in Poses(s) : handlePlayerMove(s, p[1], p[2], p[3])
Attack == \E s \in Sessions : handlePlayerAttack(s)
Swing == \E s \in Sessions, m \in SwingSamples : handleWeaponSwing(s, m[2], m[1])
SwingTimeout == \E t \in swingTimers : swingCleanup(t)
Clock == \E d \in ClockSteps : advanceClock(d, StartTime + MaxElapsed)

Next ==
  \/ Join
  \/ Leave
  \/ countdownTick
  \/ Tick
  \/ Move
  \/ Attack
  \/ Swing
  \/ SwingTimeout
  \/ Clock

Spec == Init /\ [][Next]_vars

\* The attack resolver under a clock that starts at 0 and moves in steps
\* around half the cooldown.
ResolverClock == \E d \in ResolverClockSteps : advanceClock(d, ResolverHorizon)

NextCooldown ==
  \/ Join
  \/ countdownTick
  \/ Tick
  \/ Attack
  \/ ResolverClock

SpecCooldown == InitAt(0) /\ [][NextCooldown]_vars

----------------------------------------------------------------------------
(* Three fighters around the centre of the arena: f1 turns on the spot,    *)
(* f2 stands at sword range east of it or just beyond, f3 half a sword     *)
(* range west or east of it.                                               *)

Fighters == {"f1", "f2", "f3"}
FighterWeapon(s) == IF s = "f2" THEN SPEAR ELSE SWORD
FighterPoses(s) ==
  CASE s = "f1" -> {<<0, 0, 1>>, <<0, 0, 0>>, <<0, 0, 3>>}
    [] s = "f2" -> {<<10, 0, 3>>, <<11, 0, 3>>}
    [] s = "f3" -> {<<-5, 0, 0>>, <<5, 0, 0>>}
FighterSpawn(s) == CHOOSE p \in FighterPoses(s) : p[1] <= 0 \/ p[1] = 10
MeleeClockSteps == {1000}

JoinFighter ==
  \E s \in Fighters :
    onJoin(s, FighterWeapon(s), FighterSpawn(s)[1], FighterSpawn(s)[2], FighterSpawn(s)[3])
LeaveFighter == onLeave("f3")
MoveFighter ==
  \E s \in Fighters : \E p \in FighterPoses(s) : handlePlayerMove(s, p[1], p[2], p[3])
AttackFighter == \E s \in {"f1", "f2"} : handlePlayerAttack(s)
MeleeClock == \E d \in MeleeClockSteps : advanceClock(d, StartTime + MeleeElapsed)

NextMelee ==
  \/ JoinFighter
  \/ LeaveFighter
  \/ countdownTick
  \/ MoveFighter
  \/ AttackFighter
  \/ MeleeClock

SpecMelee == Init /\ [][NextMelee]_vars

----------------------------------------------------------------------------
(* An archer a1 near the eastern rim, shooting east (out of the arena) or  *)
(* west, where the targets a2 and a3 stand within one hit radius of each   *)
(* other on the arrow's path.  The archer may step onto its own arrow's    *)
(* path.                                                                   *)

Archers == {"a1", "a2", "a3"}
ArcherWeapon(s) == IF s = "a1" THEN BOW ELSE SWORD
ArcherPoses(s) ==
  CASE s = "a1" -> {<<MAP_RADIUS - 10, 0, 3>>, <<MAP_RADIUS - 10, 0, 1>>,
                    <<MAP_RADIUS, 0, 1>>, <<MAP_RADIUS - 20, 0, 3>>}
    [] s = "a2" -> {<<MAP_RADIUS - 20, 0, 0>>}
    [] s = "a3" -> {<<MAP_RADIUS - 22, 0, 0>>}
ArcherSpawn(s) == CHOOSE p \in ArcherPoses(s) : p[1] <= MAP_RADIUS - 10 /\ p[3] # 1
ArrowClockSteps == {1000}

JoinArcher ==
  \E s \in Archers :
    onJoin(s, ArcherWeapon(s), ArcherSpawn(s)[1], ArcherSpawn(s)[2], ArcherSpawn(s)[3])
LeaveArcher == \E s \in {"a2", "a3"} : onLeave(s)
MoveArcher == \E p \in ArcherPoses("a1") : handlePlayerMove("a1", p[1], p[2], p[3])
AttackArcher == handlePlayerAttack("a1")
ArrowClock == \E d \in ArrowClockSteps : advanceClock(d, StartTime + ArrowElapsed)

NextArrow ==
  \/ JoinArcher
  \/ LeaveArcher
  \/ countdownTick
  \/ Tick
  \/ MoveArcher
  \/ AttackArcher
  \/ ArrowClock

SpecArrow == Init /\ [][NextArrow]_vars

----------------------------------------------------------------------------
(* A player whose weapon type is not a key of WEAPONS (onJoin stores        *)
(* options.weaponType as it comes), one metre west of a spearman.          *)

Duelists == {"u1", "u2"}
DuelistWeapon(s) == IF s = "u1" THEN "AXE" ELSE SPEAR
DuelistSpawn(s) == IF s = "u1" THEN <<0, 0, 1>> ELSE <<10, 0, 3>>
DuelSamples == {<<<<0, 9, 0>>, <<10, 9, 0>>>>}
DuelClockSteps == {1000}

JoinDuelist ==
  \E s \in Duelists :
    onJoin(s, DuelistWeapon(s), DuelistSpawn(s)[1], DuelistSpawn(s)[2], DuelistSpawn(s)[3])
AttackDuelist == \E s \in Duelists : handlePlayerAttack(s)
SwingDuelist == \E s \in Duelists, m \in DuelSamples : handleWeaponSwing(s, m[2], m[1])
DuelClock == \E d \in DuelClockSteps : advanceClock(d, StartTime + DuelElapsed)

NextUnknown ==
  \/ JoinDuelist
  \/ countdownTick
  \/ Tick
  \/ AttackDuelist
  \/ SwingDuelist
  \/ SwingTimeout
  \/ DuelClock

SpecUnknown == Init /\ [][NextUnknown]_vars

----------------------------------------------------------------------------
(* Two rooms of one process.  WeaponStrategyFactory keeps its strategies in *)
(* static fields, so the RangedWeaponStrategy of the second room, and with  *)
(* it projectileCounter, is the one of the first.                           *)

\* playerAttack of an archer of the second room, accepted there:
\* createProjectile takes the next id from the shared counter
peerAttack ==
  /\ Cardinality(peerProjectiles) < MaxPeerShots
  /\ peerProjectiles' = peerProjectiles \cup {projectileCounter}
  /\ projectileCounter' = projectileCounter + 1
  /\ notices' = <<>>
  /\ UNCHANGED <<players, joinOrder, clients, projectiles, countdown, tickCounter,
                 needsCriticalBroadcast, now, thrown, clientVars, segmentVars>>
  /\ UNCHANGED matchVars
  /\ UNCHANGED swingVars

RoomClockSteps == {500}
RoomClock == \E d \in RoomClockSteps : advanceClock(d, StartTime + MaxElapsed)

NextTwoRooms ==
  \/ Join
  \/ countdownTick
  \/ Attack
  \/ RoomClock
  \/ peerAttack

SpecTwoRooms == Init /\ [][NextTwoRooms]_vars

----------------------------------------------------------------------------
(* lineIntersectsSphere on its own: the arguments are drawn from a grid of *)
(* points and radii, and the one step is the call.                         *)

SegmentPoints ==
  {<<x, y, z>> : x \in -SegmentSpan..SegmentSpan, y \in {0, 1}, z \in {0, 1}}
SegmentInputs ==
  {<<b, t, c, r>> : b \in SegmentPoints, t \in SegmentPoints,
                    c \in SegmentPoints, r \in 0..MaxRadius}

InitSegment ==
  /\ ServerInit(StartTime)
  /\ ClientIdle
  /\ segment \in SegmentInputs
  /\ intersects = <<>>

callLineIntersectsSphere ==
  /\ segment # <<>>
  /\ intersects = <<>>
  /\ intersects' = <<lineIntersectsSphere(segment[1], segment[2], segment[3], segment[4])>>
  /\ UNCHANGED <<segment, serverVars, clientVars>>

NextSegment == callLineIntersectsSphere

SpecSegment == InitSegment /\ [][NextSegment]_vars

----------------------------------------------------------------------------
(* The client: InputService and the local player's mesh.  Lengths are in   *)
(* millimetres and times in milliseconds; a lerp is rounded down to the     *)
(* millimetre.  The rotation of the mesh and the input buffer kept for      *)
(* debugging are left out.                                                  *)

moveSpeed == 200                 \* 0.2 units per frame
INPUT_MAP_RADIUS == 30 * 1000    \* InputService.MAP_RADIUS
BOUNDARY_MARGIN == 1000          \* the 1 of MAP_RADIUS - 1
MIN_SEND_INTERVAL == 50
HEARTBEAT_INTERVAL == 200
POSITION_THRESHOLD == 100
RECONCILE_TOLERANCE == 100       \* distance < 0.1: no correction
RECONCILE_SNAP == 500            \* distance > 0.5: lerp
RECONCILE_LERP_TENTHS == 2       \* lerp factor 0.2

DistSq(p, q) == (p[1] - q[1]) * (p[1] - q[1]) + (p[2] - q[2]) * (p[2] - q[2])

\* a correction that puts the mesh on the target at once
Lerp_snap(p, target, tenths) == target

\* THREE.Vector3.lerp(target, tenths / 10)
Lerp(p, target, tenths) ==
  <<p[1] + ((target[1] - p[1]) * tenths) \div 10,
    p[2] + ((target[2] - p[2]) * tenths) \div 10>>

PlayerMove(p, t) == [x |-> p[1], z |-> p[2], timestamp |-> t]

\* the movement vector of the keys held down
movementVector(held) ==
  <<(IF "d" \in held THEN moveSpeed ELSE 0) - (IF "a" \in held THEN moveSpeed ELSE 0),
    (IF "s" \in held THEN moveSpeed ELSE 0) - (IF "w" \in held THEN moveSpeed ELSE 0)>>

\* a candidate position that the boundary test never rejects
withinBoundary_none(p) == TRUE

\* distance <= MAP_RADIUS - 1
withinBoundary(p) ==
  DistSq(p, <<0, 0>>) <= (INPUT_MAP_RADIUS - BOUNDARY_MARGIN) * (INPUT_MAP_RADIUS - BOUNDARY_MARGIN)

\* InputService.shouldSendUpdate at the time t
shouldSendUpdate(currentPosition, t) ==
  LET timeDelta == t - lastSentTime
  IN IF lastSentPosition = <<>> THEN TRUE
     ELSE \/ /\ timeDelta > MIN_SEND_INTERVAL
             /\ DistSq(currentPosition, lastSentPosition) > POSITION_THRESHOLD * POSITION_THRESHOLD
          \/ timeDelta > HEARTBEAT_INTERVAL

\* room.send('playerMove', ...) with the bookkeeping that follows it
sendMove(p, t) ==
  /\ outbox' = <<PlayerMove(p, t)>>
  /\ lastSentPosition' = p
  /\ lastSentTime' = t

sendNothing ==
  /\ outbox' = <<>>
  /\ UNCHANGED <<lastSentPosition, lastSentTime>>

\* InputService.sendHeartbeatIfNeeded at the time t
sendHeartbeatIfNeeded(p, t) ==
  IF t - lastSentTime > HEARTBEAT_INTERVAL THEN sendMove(p, t) ELSE sendNothing

\* InputService.updatePlayerMovement(playerMesh, room) at the time t
updatePlayerMovement(t) ==
  LET moved == keys \cap {"w", "a", "s", "d"} # {}
      mv == movementVector(keys)
      newPosition == <<meshPosition[1] + mv[1], meshPosition[2] + mv[2]>>
  IN IF ~moved
     THEN /\ sendHeartbeatIfNeeded(meshPosition, t)
          /\ UNCHANGED meshPosition
     ELSE IF withinBoundary(newPosition)
     THEN /\ meshPosition' = newPosition
          /\ IF mv # <<0, 0>> /\ shouldSendUpdate(newPosition, t)
             THEN sendMove(newPosition, t)
             ELSE sendNothing
     ELSE /\ UNCHANGED meshPosition
          /\ sendNothing

----------------------------------------------------------------------------
(* The client: InterpolationService and PlayerMeshService for one remote    *)
(* player.  A snapshot is [timestamp, position]; positions are in           *)
(* millimetres, velocities in millimetres per second, and a division is     *)
(* rounded down.  The rotation is left out.                                 *)

RENDER_DELAY_MS == 100
BUFFER_TIME_MS == 200
EXTRAPOLATION_THRESHOLD == 150
MAX_EXTRAPOLATION_TIME == 500

RECURSIVE DropOld(_, _)
\* while (buffer.length > 0 && buffer[0].timestamp < cutoffTime) buffer.shift()
DropOld(buffer, cutoffTime) ==
  IF buffer # <<>> /\ Head(buffer).timestamp < cutoffTime
  THEN DropOld(Tail(buffer), cutoffTime)
  ELSE buffer

\* InterpolationService.addSnapshot at the time t
addSnapshot(buffer, snapshot, t) == DropOld(Append(buffer, snapshot), t - BUFFER_TIME_MS)

\* the pair of snapshots getInterpolatedState interpolates between
interpolationPair(buffer, targetTime) ==
  LET n == Len(buffer)
      straddling == {i \in 1..(n - 1) : /\ buffer[i].timestamp <= targetTime
                                         /\ buffer[i + 1].timestamp >= targetTime}
  IN IF targetTime > buffer[n].timestamp THEN n - 1
     ELSE IF straddling # {} THEN CHOOSE i \in straddling : \A j \in straddling : i <= j
     ELSE 1

\* the interpolation whose alpha is not clamped to [0, 1]
getInterpolatedState_unclamped(buffer, t) ==
  IF Len(buffer) = 0 THEN <<>>
  ELSE IF Len(buffer) = 1 THEN <<buffer[1].position>>
  ELSE LET targetTime == t - RENDER_DELAY_MS
           i == interpolationPair(buffer, targetTime)
           before == buffer[i]
           after == buffer[i + 1]
           timeDelta == after.timestamp - before.timestamp
           elapsed == targetTime - before.timestamp
       IN IF timeDelta = 0 THEN <<before.position>>
          ELSE <<<<before.position[1]
                     + ((after.position[1] - before.position[1]) * elapsed) \div timeDelta,
                   before.position[2]
                     + ((after.position[2] - before.position[2]) * elapsed) \div timeDelta>>>>

\* InterpolationService.getInterpolatedState at the time t: <<>> for null,
\* else <<position>>
getInterpolatedState(buffer, t) ==
  IF Len(buffer) = 0 THEN <<>>
  ELSE IF Len(buffer) = 1 THEN <<buffer[1].position>>
  ELSE LET targetTime == t - RENDER_DELAY_MS
           i == interpolationPair(buffer, targetTime)
           before == buffer[i]
           after == buffer[i + 1]
           timeDelta == after.timestamp - before.timestamp
           raw == targetTime - before.timestamp
           elapsed == IF raw < 0 THEN 0 ELSE IF raw > timeDelta THEN timeDelta ELSE raw
       IN IF timeDelta = 0 THEN <<before.position>>
          ELSE <<<<before.position[1]
                     + ((after.position[1] - before.position[1]) * elapsed) \div timeDelta,
                   before.position[2]
                     + ((after.position[2] - before.position[2]) * elapsed) \div timeDelta>>>>

\* PlayerMeshService.applyDeadReckoning at the time t
applyDeadReckoning(t) ==
  LET timeSinceUpdate == t - lastUpdateTime
  IN IF timeSinceUpdate > EXTRAPOLATION_THRESHOLD /\ timeSinceUpdate < MAX_EXTRAPOLATION_TIME
     THEN /\ isExtrapolating' = TRUE
          /\ remotePosition' =
               <<remotePosition[1] + (lastKnownVelocity[1] * timeSinceUpdate * 5) \div 1000000,
                 remotePosition[2] + (lastKnownVelocity[2] * timeSinceUpdate * 5) \div 1000000>>
     ELSE UNCHANGED <<remotePosition, isExtrapolating>>

\* the part of BattlePage.animate that places the remote player
renderRemote(t) ==
  LET interpolatedState == getInterpolatedState(interpolationBuffer, t)
  IN IF interpolatedState # <<>>
     THEN /\ remotePosition' = interpolatedState[1]
          /\ UNCHANGED isExtrapolating
     ELSE applyDeadReckoning(t)

\* BattlePage.animate, d ms after the frame before: the movement of the
\* local player if its mesh exists, then the placing of the remote player
animate(d) ==
  /\ clientNow + d <= ClientStart + ClientElapsed
  /\ clientNow' = clientNow + d
  /\ IF meshPosition # <<>>
     THEN updatePlayerMovement(clientNow + d)
     ELSE /\ outbox' = <<>>
          /\ UNCHANGED <<meshPosition, lastSentPosition, lastSentTime>>
  /\ IF remotePosition # <<>>
     THEN renderRemote(clientNow + d)
     ELSE UNCHANGED <<remotePosition, isExtrapolating>>
  /\ UNCHANGED <<keys, interpolationBuffer, lastKnownVelocity, lastUpdateTime,
                 serverVars, segmentVars>>

\* BattlePage.updatePlayerInScene(sessionId, playerData) for a living remote
\* player whose playerData.position is p: the mesh is created if it is not
\* there, then addSnapshot and PlayerMeshService.updateVelocity
updatePlayerInScene(p) ==
  LET fresh == remotePosition = <<>>
      position == IF fresh THEN p ELSE remotePosition
      updated == IF fresh THEN clientNow ELSE lastUpdateTime
      velocity == IF fresh THEN <<0, 0>> ELSE lastKnownVelocity
      timeDelta == clientNow - updated
  IN /\ Len(interpolationBuffer) < MaxBuffer
     /\ remotePosition' = position
     /\ interpolationBuffer' =
          addSnapshot(IF fresh THEN <<>> ELSE interpolationBuffer,
                      [timestamp |-> clientNow, position |-> p], clientNow)
     /\ lastKnownVelocity' =
          (IF timeDelta > 0
           THEN <<((p[1] - position[1]) * 1000) \div timeDelta,
                  ((p[2] - position[2]) * 1000) \div timeDelta>>
           ELSE velocity)
     /\ lastUpdateTime' = clientNow
     /\ isExtrapolating' = FALSE
     /\ outbox' = <<>>
     /\ UNCHANGED <<meshPosition, keys, lastSentPosition, lastSentTime, clientNow,
                    serverVars, segmentVars>>

handleKeyDown(k) ==
  /\ k \notin keys
  /\ keys' = keys \cup {k}
  /\ outbox' = <<>>
  /\ UNCHANGED <<meshPosition, lastSentPosition, lastSentTime, clientNow,
                 remoteVars, serverVars, segmentVars>>

handleKeyUp(k) ==
  /\ k \in keys
  /\ keys' = keys \ {k}
  /\ outbox' = <<>>
  /\ UNCHANGED <<meshPosition, lastSentPosition, lastSentTime, clientNow,
                 remoteVars, serverVars, segmentVars>>

\* InputService.reconcilePosition(playerMesh, serverPosition), called by
\* BattlePage.updatePlayerInScene for the local player
reconcilePosition(serverPosition) ==
  /\ meshPosition' =
       (IF DistSq(meshPosition, serverPosition) < RECONCILE_TOLERANCE * RECONCILE_TOLERANCE
        THEN meshPosition
        ELSE IF DistSq(meshPosition, serverPosition) > RECONCILE_SNAP * RECONCILE_SNAP
        THEN Lerp(meshPosition, serverPosition, RECONCILE_LERP_TENTHS)
        ELSE meshPosition)
  /\ outbox' = <<>>
  /\ meshPosition # <<>>
  /\ UNCHANGED <<keys, lastSentPosition, lastSentTime, clientNow,
                 remoteVars, serverVars, segmentVars>>

\* inputs of SpecClient
ClientSpawn == <<28800, 0>>
ClientKeys == {"a", "d"}
FrameGaps == {50, 51, 100}
ServerPositions == {<<28850, 0>>, <<29600, 0>>}

InitClient ==
  /\ ServerInit(StartTime)
  /\ SegmentIdle
  /\ RemoteIdle
  /\ meshPosition = ClientSpawn
  /\ keys = {}
  /\ lastSentPosition = <<>>
  /\ lastSentTime = 0
  /\ clientNow = ClientStart
  /\ outbox = <<>>

KeyDown == \E k \in ClientKeys : handleKeyDown(k)
KeyUp == \E k \in ClientKeys : handleKeyUp(k)
Frame == \E d \in FrameGaps : animate(d)
Reconcile == \E sp \in ServerPositions : reconcilePosition(sp)

NextClient ==
  \/ KeyDown
  \/ KeyUp
  \/ Frame
  \/ Reconcile

SpecClient == InitClient /\ [][NextClient]_vars

----------------------------------------------------------------------------
(* The client rendering one remote player: snapshots arrive at the time of *)
(* the frame before, frames follow 50 or 100 ms apart.                      *)

RemotePositions == {<<0, 0>>, <<1000, 0>>, <<1000, 300>>}
RemoteGaps == {50, 100}

InitRemote ==
  /\ ServerInit(StartTime)
  /\ SegmentIdle
  /\ InputIdle
  /\ clientNow = ClientStart
  /\ RemoteIdle

RemoteSnapshot == \E p \in RemotePositions : updatePlayerInScene(p)
RemoteFrame == \E d \in RemoteGaps : animate(d)

NextRemote ==
  \/ RemoteSnapshot
  \/ RemoteFrame

SpecRemote == InitRemote /\ [][NextRemote]_vars

----------------------------------------------------------------------------
(* Two spearmen one metre apart near the eastern rim, facing each other,   *)
(* without the game loop: standard attacks and swing samples under a clock *)
(* that moves in steps of the swing window.  The clock runs one swing      *)
(* window past MaxElapsed, so that the timer of every swing that starts    *)
(* within MaxElapsed comes due.                                            *)

Swingers == {"s1", "s2"}
SwingerSpawn(s) == IF s = "s1" THEN <<MAP_RADIUS - 10, 0, 1>> ELSE <<MAP_RADIUS, 0, 3>>

JoinSwinger ==
  \E s \in Swingers :
    onJoin(s, SPEAR, SwingerSpawn(s)[1], SwingerSpawn(s)[2], SwingerSpawn(s)[3])
LeaveSwinger == \E s \in Swingers : onLeave(s)
AttackSwinger == \E s \in Swingers : handlePlayerAttack(s)
SwingSwinger == \E s \in Swingers, m \in SwingSamples : handleWeaponSwing(s, m[2], m[1])

SwingHorizon == StartTime + MaxElapsed + SWING_CLEANUP_DELAY_MS

SwingClock == \E d \in ClockSteps : advanceClock(d, SwingHorizon)

NextSwing ==
  \/ JoinSwinger
  \/ LeaveSwinger
  \/ countdownTick
  \/ AttackSwinger
  \/ SwingSwinger
  \/ SwingTimeout
  \/ SwingClock

SpecSwing == Init /\ [][NextSwing]_vars

\* time passes and the event loop runs every setTimeout callback that is due
SpecSwingFair == SpecSwing /\ WF_vars(SwingTimeout) /\ WF_vars(SwingClock)

----------------------------------------------------------------------------
(* The archer and one target under a game loop that never stops: the       *)
(* archer shoots to the west, at the target, or to the east, out of the    *)
(* arena.  The code reads the tick counter only modulo broadcastRate, and  *)
(* that is what the counter holds here.                                    *)

FlightTick ==
  \E d \in StepDistances : updateTo(d, (tickCounter + 1) % broadcastRate)

JoinFlight ==
  \E s \in {"a1", "a2"} :
    onJoin(s, ArcherWeapon(s), ArcherSpawn(s)[1], ArcherSpawn(s)[2], ArcherSpawn(s)[3])
LeaveFlight == onLeave("a2")

\* the archer turns on the spot, to the west or to the east
TurnArcher ==
  \E q \in {1, 3} :
    handlePlayerMove("a1", ArcherSpawn("a1")[1], ArcherSpawn("a1")[2], q)

NextFlight ==
  \/ JoinFlight
  \/ LeaveFlight
  \/ countdownTick
  \/ FlightTick
  \/ TurnArcher
  \/ AttackArcher
  \/ ArrowClock

SpecFlight == Init /\ [][NextFlight]_vars

\* the guard of update: what ENABLED <<FlightTick>>_vars comes to, since a
\* tick always changes the tick counter
TickDue == RoomOpen /\ gameActive /\ ~gameEnded

\* setSimulationInterval keeps calling update: WF_vars(FlightTick), written
\* out with the guard in place of ENABLED
SpecFlightFair ==
  SpecFlight /\ ([]<>(~TickDue) \/ []<><<FlightTick>>_vars)

----------------------------------------------------------------------------
(* Properties                                                              *)

Roster == DOMAIN players
Countdown == ~gameActive /\ ~gameEnded
Active == gameActive /\ ~gameEnded
Ended == gameEnded /\ ~gameActive

\* C1: every player's hp is between 0 and maxHp, whatever operations ran
C1_HpInRange ==
  \A s \in Roster : 0 <= players[s].hp /\ players[s].hp <= players[s].maxHp

\* a connected player inside the arena whose hp a hit larger than the hp
\* left has brought to 0, next to a player with part of its hp left
C1_Witness ==
  \E s, u \in Roster :
    /\ players[s].hp = 0 /\ s \in clients
    /\ players[s].x * players[s].x + players[s].z * players[s].z <= MAP_RADIUS * MAP_RADIUS
    /\ players[u].hp > 0 /\ players[u].hp < players[u].maxHp

\* C2: between two handlers a player is alive exactly when its hp is above 0
C2_AliveIffHp ==
  \A s \in Roster : players[s].isAlive <=> players[s].hp > 0

\* one player eliminated by the boundary check and one by leaving
C2_Witness ==
  \E s, u \in Roster :
    /\ s # u
    /\ ~players[s].isAlive /\ s \in clients
    /\ players[s].x * players[s].x + players[s].z * players[s].z > MAP_RADIUS * MAP_RADIUS
    /\ ~players[u].isAlive /\ u \notin clients

\* C3: a match starts in Countdown, turns Active only when the countdown
\* reaches zero, turns Ended only from Active, and stays Ended
C3_PhaseOrder ==
  /\ Countdown
  /\ [][/\ Countdown' \/ Active' \/ Ended'
        /\ Countdown => Countdown' \/ (Active' /\ countdown' = 0)
        /\ Active => Active' \/ Ended'
        /\ Ended => Ended']_vars

\* an ended match, which has been through Countdown and Active
C3_Witness == Ended /\ countdown = 0 /\ winnerId # "" /\ tickCounter > 0

OutOfArena(p) == p.x * p.x + p.z * p.z > MAP_RADIUS * MAP_RADIUS
Died(t) == /\ t \in Roster /\ players[t].isAlive
           /\ t \in DOMAIN players' /\ ~players'[t].isAlive
HasNotice(seq, type, a) == \E i \in 1..Len(seq) : seq[i].type = type /\ seq[i].a = a
TickStep == tickCounter' # tickCounter
LeaveStep == clients' \subseteq clients /\ clients' # clients

\* C4: in an Active match of exactly two players, a weapon (standard melee
\* attack, swing sample or projectile) that brings one player's hp to 0 ends
\* the match in that same step, with the other player recorded and
\* announced as the winner
C4_EndsAtOnce ==
  [][\A t, u \in Roster :
       ( /\ Active /\ Cardinality(Roster) = 2 /\ t # u
         /\ Died(t) /\ t \in clients' /\ ~OutOfArena(players[t])
         /\ players[u].isAlive /\ players'[u].isAlive )
       => ( /\ Ended' /\ winnerId' = u
            /\ HasNotice(notices', "gameEnded", u) )]_vars

\* C5: when the victory check of a tick or of a disconnect runs in an Active
\* match with no player alive, the match ends, winnerId stays empty and the
\* gameEnded notice carries an empty winnerId
C5_NoSurvivor ==
  [][( /\ Active /\ (TickStep \/ LeaveStep)
       /\ {s \in DOMAIN players' : players'[s].isAlive} = {} )
     => ( /\ Ended' /\ winnerId' = "" /\ winnerName' = ""
          /\ HasNotice(notices', "gameEnded", "")
          /\ ~\E s \in Sessions : HasNotice(notices', "gameEnded", s) )]_vars

\* a match that has just ended with nobody alive and no winner
C5_Witness ==
  /\ Ended /\ winnerId = "" /\ Roster # {}
  /\ \A s \in Roster : ~players[s].isAlive
  /\ HasNotice(notices, "gameEnded", "")

\* C6: once the match has Ended no operation changes a player's hp, alive
\* flag or position, the roster, the projectiles or the recorded winner
C6_Frozen ==
  [][gameEnded => UNCHANGED <<players, projectiles, winnerId, winnerName>>]_vars

\* the two kill paths: damage that reaches hp = 0, and the boundary check
DamageKill(t) ==
  /\ \/ Attack
     \/ Swing
     \/ Tick /\ \E id \in DOMAIN projectiles \ DOMAIN projectiles' :
                  projectiles[id].ownerId # t
  /\ players'[t].hp = 0
BoundaryKill(t) ==
  /\ Tick
  /\ OutOfArena(players[t])
  /\ players'[t].hp = 0

\* C7 as stated: isAlive turns false only through damage that reaches
\* hp = 0 or through the boundary check
C7_TwoKillPaths ==
  [][\A t \in Roster : Died(t) => DamageKill(t) \/ BoundaryKill(t)]_vars

\* C7: isAlive turns false only through damage that reaches hp = 0, through
\* the boundary check, or through the player's own disconnect
C7_KillPaths ==
  [][\A t \in Roster : Died(t) => DamageKill(t) \/ BoundaryKill(t) \/ onLeave(t)]_vars

\* a player inside the arena eliminated by its disconnect in a running
\* match, the other player never having attacked
C7_Witness ==
  \E t, u \in Roster :
    /\ t # u /\ tickCounter > 0
    /\ t \notin clients /\ ~players[t].isAlive /\ ~OutOfArena(players[t])
    /\ players[u].lastAttackTime = 0

\* C8: a tick of an Active match eliminates every alive player farther from
\* the centre than the arena radius (hp 0, not alive), so that after the
\* tick every alive player is within the radius
C8_Boundary ==
  [][TickStep =>
       \A s \in Roster :
         /\ (players[s].isAlive /\ OutOfArena(players[s]))
              => (~players'[s].isAlive /\ players'[s].hp = 0)
         /\ players'[s].isAlive => ~OutOfArena(players'[s])]_vars

\* after a tick: a connected player outside the arena with full hp was
\* eliminated, a player exactly on the rim is alive
C8_Witness ==
  /\ tickCounter > 0
  /\ \E s, u \in Roster :
       /\ s \in clients /\ OutOfArena(players[s]) /\ ~players[s].isAlive
       /\ players[u].isAlive
       /\ players[u].x * players[u].x + players[u].z * players[u].z = MAP_RADIUS * MAP_RADIUS
       /\ players[u].hp = players[u].maxHp

\* everything but the messages of the last handler
stateVars ==
  <<players, joinOrder, clients, projectiles, countdown, gameActive, gameEnded,
    winnerId, winnerName, tickCounter, needsCriticalBroadcast, projectileCounter,
    activeSwings, swingHitPlayers, swingTimers, endGameTimers, now,
                 thrown, peerProjectiles, clientVars, segmentVars>>

\* C9: a standard attack is accepted exactly when now - lastAttackTime is at
\* least the weapon's cooldown; accepted, it stamps lastAttackTime = now and
\* sets isAttacking; rejected, it changes nothing; so two accepted attacks
\* of a player are at least the cooldown apart
C9_Cooldown ==
  [][\A s \in Roster :
       /\ (accepted(s) /\ handlePlayerAttack(s)) =>
            IF now - players[s].lastAttackTime >= WEAPONS[players[s].weaponType].cooldown
            THEN /\ players'[s].lastAttackTime = now
                 /\ players'[s].isAttacking
            ELSE UNCHANGED stateVars /\ notices' = <<>>
       /\ (s \in DOMAIN players' /\ players'[s].lastAttackTime # players[s].lastAttackTime) =>
            players'[s].lastAttackTime - players[s].lastAttackTime
              >= WEAPONS[players[s].weaponType].cooldown]_vars

\* the archer's second shot, accepted exactly one cooldown after the first
C9_Witness ==
  \E s \in Roster :
    /\ players[s].weaponType = BOW
    /\ players[s].lastAttackTime = 2 * WEAPONS[BOW].cooldown
    /\ players[s].isAttacking
    /\ projectileCounter = 2
    /\ now = players[s].lastAttackTime

FacingX(p) == Sin(p.rotation)
FacingZ(p) == Cos(p.rotation)

\* t is another alive player within the attacker's range and in front of it
InFront(s, t) ==
  LET a == players[s]
      b == players[t]
      r == WEAPONS[a.weaponType].range
  IN /\ t # s
     /\ b.isAlive
     /\ (b.x - a.x) * (b.x - a.x) + (b.z - a.z) * (b.z - a.z) <= r * r
     /\ FacingX(a) * (b.x - a.x) + FacingZ(a) * (b.z - a.z) > 0

\* t stands directly behind s at half the range of s's weapon
BehindAtHalfRange(s, t) ==
  LET a == players[s]
      b == players[t]
      r == WEAPONS[a.weaponType].range
  IN /\ 2 * (b.x - a.x) = -FacingX(a) * r
     /\ 2 * (b.z - a.z) = -FacingZ(a) * r

HitsOn(seq, type, s, t) ==
  Cardinality({i \in 1..Len(seq) : seq[i].type = type /\ seq[i].a = s /\ seq[i].b = t})

MeleeAccepted(s) ==
  /\ accepted(s)
  /\ players[s].weaponType \in {SWORD, SPEAR}
  /\ now - players[s].lastAttackTime >= WEAPONS[players[s].weaponType].cooldown
  /\ handlePlayerAttack(s)

\* C11: an accepted standard melee attack damages, once and with the
\* weapon's damage, exactly the other alive players within range whose
\* direction has a positive dot product with the attacker's facing; it never
\* damages the attacker, a dead player or a player directly behind the
\* attacker at half the range
C11_MeleeTargets ==
  [][\A s \in Roster :
       MeleeAccepted(s) =>
         \A t \in Roster :
           LET dmg == WEAPONS[players[s].weaponType].damage
               left == IF players[t].hp - dmg > 0 THEN players[t].hp - dmg ELSE 0
           IN /\ InFront(s, t) =>
                   /\ players'[t].hp = left
                   /\ HitsOn(notices', "playerHit", s, t) = 1
              /\ ~InFront(s, t) =>
                   /\ players'[t].hp = players[t].hp
                   /\ players'[t].isAlive = players[t].isAlive
                   /\ HitsOn(notices', "playerHit", s, t) = 0
              /\ BehindAtHalfRange(s, t) => players'[t].hp = players[t].hp]_vars

\* f1 has just struck east: f2, at exactly sword range in front of it, is
\* hit, and f3, half a range behind it, is untouched
C11_Witness ==
  /\ Fighters \subseteq Roster
  /\ players["f1"].isAttacking /\ players["f1"].rotation = 1
  /\ players["f1"].lastAttackTime = now
  /\ players["f2"].x = 10 /\ players["f2"].hp = PLAYER_MAX_HP - WEAPONS[SWORD].damage
  /\ players["f3"].x = -5 /\ players["f3"].hp = PLAYER_MAX_HP
  /\ HitsOn(notices, "playerHit", "f1", "f2") = 1

\* s is in a swing: its first sample was accepted and the cleanup timer of
\* that swing has not fired
InSwing(s) ==
  /\ s \in Roster
  /\ players[s].weaponType \in DOMAIN activeSwings
  /\ s \in activeSwings[players[s].weaponType]
SwingHits(s) == swingHitPlayers[players[s].weaponType][s]
SwingStep(s) == \E m \in SwingSamples : handleWeaponSwing(s, m[2], m[1])

\* C12: within one swing (from its accepted first sample to its cleanup
\* timer) a target is damaged and reported at most once: a sample damages
\* and reports no target the swing has hit before, every target a sample
\* damages is remembered, and the memory lasts as long as the swing
C12_OneHitPerSwing ==
  [][\A s \in Roster :
       /\ SwingStep(s) =>
            \A t \in Roster :
              /\ (InSwing(s) /\ t \in SwingHits(s)) =>
                   /\ players'[t].hp = players[t].hp
                   /\ HitsOn(notices', "playerAttacked", s, t) = 0
              /\ HitsOn(notices', "playerAttacked", s, t) <= 1
              /\ (players'[t].hp < players[t].hp
                    \/ HitsOn(notices', "playerAttacked", s, t) > 0) =>
                   /\ s \in activeSwings'[players[s].weaponType]
                   /\ t \in swingHitPlayers'[players[s].weaponType][s]
       /\ (InSwing(s) /\ s \in activeSwings'[players[s].weaponType]) =>
            SwingHits(s) \subseteq swingHitPlayers'[players[s].weaponType][s]
       /\ (InSwing(s) /\ s \notin activeSwings'[players[s].weaponType]) =>
            \E t \in swingTimers : t.sessionId = s /\ swingCleanup(t)]_vars

\* a swing in progress whose target is remembered as hit and has lost the
\* weapon's damage once, the last handler having reported nothing
C12_Witness ==
  \E s, t \in Roster :
    /\ InSwing(s) /\ t \in SwingHits(s)
    /\ players[t].hp = PLAYER_MAX_HP - WEAPONS[players[s].weaponType].damage
    /\ players[t].isAlive
    /\ notices = <<>>
    /\ players[s].lastAttackTime = now

\* C13: a projectile never has distanceTraveled above its range, and a
\* tick removes every projectile that has reached its range or is outside
\* the arena, so that none such is left after the tick
C13_ProjectileRange ==
  /\ [](\A id \in DOMAIN projectiles :
          projectiles[id].distanceTraveled <= projectiles[id].range)
  /\ [][\A d \in StepDistances :
          update(d) =>
            /\ \A id \in DOMAIN projectiles :
                 LET p == projectiles[id]
                     x1 == p.x + p.directionX * d
                     z1 == p.z + p.directionZ * d
                 IN (p.distanceTraveled + d >= p.range
                       \/ x1 * x1 + z1 * z1 > MAP_RADIUS * MAP_RADIUS)
                    => id \notin DOMAIN projectiles'
            /\ \A id \in DOMAIN projectiles' : ~OutOfArena(projectiles'[id])]_vars

\* after two short ticks the second arrow is in flight, and the first, which
\* hit nobody and had travelled a sixth of its range at most, is gone: it
\* was removed for being outside the arena
C13_Witness ==
  /\ tickCounter = 2 /\ projectileCounter = 2
  /\ DOMAIN projectiles = {1}
  /\ projectiles[1].distanceTraveled = 10
  /\ \A s \in Roster : players[s].hp \in {0, PLAYER_MAX_HP}

\* the projectiles a step removes, and the hits on t the step reports
Removed == DOMAIN projectiles \ DOMAIN projectiles'
ArrowHits(seq, t) ==
  {i \in 1..Len(seq) : seq[i].type = "playerHit" /\ seq[i].b = t}
AllArrowHits(seq) == {i \in 1..Len(seq) : seq[i].type = "playerHit"}

\* C14: a projectile damages at most one player, who is alive when hit and
\* is not its owner, and it is removed in the tick in which it hits: in a
\* tick there are no more hits than removed projectiles, every hit is on a
\* player alive until then by a removed projectile of another owner, and
\* the players lose exactly the damage of their hits
C14_OneHitPerProjectile ==
  [][TickStep =>
       /\ Cardinality(AllArrowHits(notices')) <= Cardinality(Removed)
       /\ \A i \in AllArrowHits(notices') :
            /\ notices'[i].b \in Roster
            /\ players[notices'[i].b].isAlive
            /\ \E id \in Removed :
                 /\ projectiles[id].ownerId # notices'[i].b
                 /\ projectiles[id].damage = notices'[i].n
       /\ \A t \in Roster :
            LET k == Cardinality(ArrowHits(notices', t))
                dmg == WEAPONS[BOW].damage
            IN /\ (k - 1) * dmg < players[t].hp
               /\ ~OutOfArena(players[t]) =>
                    players'[t].hp =
                      (IF players[t].hp - k * dmg > 0 THEN players[t].hp - k * dmg ELSE 0)]_vars

\* the arrow reached two targets standing within its hit radius: one of
\* them took its damage, the other none, and the arrow is gone
C14_Witness ==
  /\ {"a2", "a3"} \subseteq Roster
  /\ players["a2"].isAlive /\ players["a3"].isAlive
  /\ players["a2"].hp + players["a3"].hp = 2 * PLAYER_MAX_HP - WEAPONS[BOW].damage
  /\ projectileCounter = 1 /\ projectiles = EmptyMap
  /\ Cardinality(AllArrowHits(notices)) = 1

\* a projectile spawned since the last tick: no tick has moved it yet
FreshProjectile == \E id \in DOMAIN projectiles : projectiles[id].distanceTraveled = 0

\* C15: a critical event of an Active match (a hit, an elimination, a new
\* projectile) has the full roster broadcast by the tick that contains it
\* or, for an event of a message handler, by the next tick, whatever the
\* tick counter
C15_CriticalSnapshot ==
  [][TickStep =>
       ( ( \/ needsCriticalBroadcast
           \/ FreshProjectile
           \/ AllArrowHits(notices') # {}
           \/ \E t \in Roster : Died(t) )
         => HasNotice(notices', "playerList", "") )]_vars

MoveStep(s) == \E p \in Poses(s) : handlePlayerMove(s, p[1], p[2], p[3])

\* C16: a movement, standard attack or swing sample of a session with no
\* player record, with a dead player, or outside the Active phase changes
\* nothing and sends nothing
C16_IgnoredInput ==
  [][\A s \in Sessions :
       ( /\ \/ s \notin Roster
            \/ ~players[s].isAlive
            \/ ~gameActive
         /\ MoveStep(s) \/ handlePlayerAttack(s) \/ SwingStep(s) )
       => (UNCHANGED stateVars /\ notices' = <<>>)]_vars

\* an ended match with a dead player still connected, where the last
\* handler sent nothing: an input that came too late
C16_Witness ==
  /\ Ended /\ notices = <<>> /\ swingTimers = {}
  /\ \E s \in clients : s \in Roster /\ ~players[s].isAlive
  /\ \E s \in clients : s \in Roster /\ players[s].isAlive

\* C17: for a player whose weapon type is not configured, a standard attack
\* and a swing sample raise no error, change nothing and send nothing
C17_UnknownWeaponNoOp ==
  [][\A s \in Roster :
       ( /\ accepted(s)
         /\ players[s].weaponType \notin WeaponType
         /\ \/ handlePlayerAttack(s)
            \/ \E m \in DuelSamples : handleWeaponSwing(s, m[2], m[1]) )
       => (~thrown' /\ UNCHANGED stateVars /\ notices' = <<>>)]_vars

\* the players whose client has disconnected
Departed == Roster \ clients

\* the entries of the seq of messages that are roster snapshots
Snapshots(seq) == {i \in 1..Len(seq) : seq[i].type = "playerList"}

\* the snapshot snap lists the session s as dead with no hit points
ListedDead(snap, s) ==
  \E j \in 1..Len(snap.players) :
     /\ snap.players[j].sessionId = s
     /\ snap.players[j].hp = 0
     /\ ~snap.players[j].isAlive

\* C18: a disconnect removes no state.  A step in which the client of s
\* leaves keeps the roster and the projectiles as they were, leaves the
\* record of s in the roster with hp = 0 and isAlive = FALSE, and, when the
\* match is Active and at most one player is alive afterwards, ends the
\* match in that same step.  No later step removes a record or revives a
\* departed player, and every roster snapshot sent afterwards lists every
\* departed player, dead with no hit points.
C18_DisconnectKeepsRecord ==
  /\ [][\A s \in clients \ clients' :
          /\ Roster' = Roster /\ joinOrder' = joinOrder
          /\ projectiles' = projectiles
          /\ s \in Roster => /\ players'[s].hp = 0
                              /\ ~players'[s].isAlive
          /\ \A t \in Roster \ {s} : players'[t] = players[t]
          /\ (Active /\ countAlivePlayers(players') <= 1) => Ended']_vars
  /\ [][/\ Roster \subseteq Roster'
        /\ \A s \in Departed : /\ s \in Departed'
                                /\ players'[s].hp = 0
                                /\ ~players'[s].isAlive]_vars
  /\ [][\A i \in Snapshots(notices') :
          \A s \in Departed' : ListedDead(notices'[i], s)]_vars

\* the second tick of an Active match broadcasts a snapshot that lists the
\* player who disconnected earlier, while the other two fight on
C18_Witness ==
  /\ Active /\ tickCounter = 2
  /\ Departed = {"a2"}
  /\ countAlivePlayers(players) = 2
  /\ Snapshots(notices) # {}
  /\ \A i \in Snapshots(notices) :
        /\ Len(notices[i].players) = 3
        /\ ListedDead(notices[i], "a2")

\* the arrows this room has shot so far
OwnShots == projectileCounter - Cardinality(peerProjectiles)

\* C19: two matches of one process share no mutable state: the id a room
\* gives to a new projectile is the one it would give if the other room did
\* not exist, the number of arrows this room has shot before.
C19_Isolated ==
  [][\A i \in 1..Len(notices') :
       notices'[i].type = "projectileCreated" => notices'[i].n = OwnShots]_vars

\* the hit messages of the seq of messages
HitNotices(seq) ==
  {i \in 1..Len(seq) : seq[i].type \in {"playerHit", "playerAttacked"}}

\* C20: every hit notice names the real attacker.  The hits of a
\* playerAttack or of a weaponSwing sample of the session s carry
\* attackerId = s, and a hit reported by a tick carries the ownerId of a
\* projectile that the tick removed.
C20_RealAttacker ==
  /\ [][\A s \in Sessions :
          (handlePlayerAttack(s) \/ SwingStep(s)) =>
             \A i \in HitNotices(notices') : notices'[i].a = s]_vars
  /\ [][TickStep =>
          \A i \in HitNotices(notices') :
             \E id \in DOMAIN projectiles \ DOMAIN projectiles' :
                projectiles[id].ownerId = notices'[i].a]_vars

\* the elimination notices of the seq of messages that name the player t
Eliminations(seq, t) ==
  {i \in 1..Len(seq) : seq[i].type = "playerEliminated" /\ seq[i].a = t}

\* C21: every elimination in an Active match is announced by exactly one
\* elimination notice naming the player: whenever a step of an Active match
\* turns isAlive of a player from TRUE to FALSE, the messages of that step
\* hold exactly one playerEliminated for that player, with reason
\* out_of_bounds when the boundary monitor of the tick killed the player
\* and killed otherwise.
C21_EliminationAnnounced ==
  [][Active =>
       \A t \in Roster :
          Died(t) =>
            /\ Cardinality(Eliminations(notices', t)) = 1
            /\ \A i \in Eliminations(notices', t) :
                  notices'[i].reason =
                    (IF TickStep /\ OutOfArena(players[t]) /\ ArrowHits(notices', t) = {}
                     THEN "out_of_bounds" ELSE "killed")]_vars

\* the match-started messages of the seq of messages
Starts(seq) == {i \in 1..Len(seq) : seq[i].type = "gameStarted"}

\* C22: the countdown starts at COUNTDOWN_DURATION, only ever changes by
\* going down by one, and never goes below zero.  The step that takes it to
\* zero makes the match Active and sends gameStarted once, and no other
\* step sends gameStarted.  While the countdown is above zero the match is
\* neither active nor ended and no tick has run: the tick counter is zero,
\* there are no projectiles, and nobody dies except by disconnecting.
C22_Countdown ==
  /\ countdown = COUNTDOWN_DURATION
  /\ [](/\ countdown \in 0..COUNTDOWN_DURATION
        /\ countdown > 0 => /\ Countdown
                            /\ tickCounter = 0
                            /\ projectiles = EmptyMap
        /\ countdown = 0 => (gameActive \/ gameEnded))
  /\ [][/\ countdown' # countdown => countdown' = countdown - 1
        /\ (countdown > 0 /\ countdown' = 0) =>
              /\ Active'
              /\ Cardinality(Starts(notices')) = 1
        /\ ~(countdown > 0 /\ countdown' = 0) => Starts(notices') = {}
        /\ (countdown' > 0 /\ ~LeaveStep) =>
              \A t \in Roster : players'[t] = players[t]]_vars

\* the countdown has just reached zero with both players in the room
C22_Witness ==
  /\ countdown = 0
  /\ Active /\ tickCounter = 0
  /\ Starts(notices) # {}
  /\ Cardinality(clients) = 2

\* some point base + (k / L) (tip - base) of the closed segment, k in 0..L
\* with L = |tip - base|^2, is within r of center; the point of the segment
\* nearest to center is one of them, so this is "the minimum distance from
\* center to the segment is at most r"
WithinReach(base, tip, center, r) ==
  LET L == Dot(Sub(tip, base), Sub(tip, base))
      off(k) == <<L * (center[1] - base[1]) - k * (tip[1] - base[1]),
                  L * (center[2] - base[2]) - k * (tip[2] - base[2]),
                  L * (center[3] - base[3]) - k * (tip[3] - base[3])>>
  IN IF L = 0 THEN Dot(Sub(center, base), Sub(center, base)) <= r * r
     ELSE \E k \in 0..L : Dot(off(k), off(k)) <= L * L * r * r

\* C23: lineIntersectsSphere(base, tip, center, r) is TRUE exactly when the
\* minimum distance from center to the closed segment [base, tip] is at
\* most r, for a segment of length zero, a center beyond either end, and
\* every other placement of the grid.
C23_SegmentSphere ==
  intersects # <<>> =>
    intersects[1] = WithinReach(segment[1], segment[2], segment[3], segment[4])

\* the center lies beyond the tip, exactly r away from it: the nearest
\* point is the tip and the sphere is touched
C23_Witness ==
  /\ segment = <<<<0, 0, 0>>, <<1, 0, 0>>, <<2, 0, 0>>, 1>>
  /\ intersects = <<TRUE>>

\* the position p is within the arena of the client
InArena(p) == DistSq(p, <<0, 0>>) <= INPUT_MAP_RADIUS * INPUT_MAP_RADIUS

\* C24: client prediction does not apply a movement whose candidate position
\* would leave the arena: starting inside, after any sequence of key
\* presses, frames and reconciliations toward server positions inside the
\* arena, the local position is inside the arena and so is the position of
\* every playerMove message sent.
C24_StaysInArena ==
  /\ InArena(meshPosition)
  /\ \A i \in 1..Len(outbox) : InArena(<<outbox[i].x, outbox[i].z>>)

\* the player stands on the last accepted position, which was sent, still
\* holds the key that points outwards, and a later frame has sent nothing
C24_Witness ==
  /\ keys = {"d"}
  /\ meshPosition = <<INPUT_MAP_RADIUS - BOUNDARY_MARGIN, 0>>
  /\ lastSentPosition = meshPosition
  /\ clientNow - lastSentTime = 100
  /\ outbox = <<>>

\* the frame that runs at the time t has to send an update
UpdateDue(p, t) ==
  \/ t - lastSentTime > HEARTBEAT_INTERVAL
  \/ /\ t - lastSentTime > MIN_SEND_INTERVAL
     /\ lastSentPosition # <<>>
     /\ DistSq(p, lastSentPosition) > POSITION_THRESHOLD * POSITION_THRESHOLD

\* C25: a frame sends a movement update exactly when more than
\* MIN_SEND_INTERVAL has passed since the last one and the position is more
\* than POSITION_THRESHOLD from the last sent position, or more than
\* HEARTBEAT_INTERVAL has passed since the last one, whichever keys are
\* held: an idle player, one holding opposite keys and one pushing against
\* the boundary all send the heartbeat.
C25_SendRule ==
  [][\A d \in FrameGaps :
       animate(d) => (outbox' # <<>> <=> UpdateDue(meshPosition', clientNow'))]_vars

\* C26: reconciliation with an authoritative position less than
\* RECONCILE_TOLERANCE away (0.05 units is) leaves the predicted position
\* where it is; one more than RECONCILE_SNAP away (0.8 units is) moves it a
\* fifth of the way, so that it ends strictly closer to the authoritative
\* position and never on it.
C26_Reconcile ==
  [][\A sp \in ServerPositions :
       reconcilePosition(sp) =>
         /\ DistSq(meshPosition, sp) < RECONCILE_TOLERANCE * RECONCILE_TOLERANCE
               => meshPosition' = meshPosition
         /\ DistSq(meshPosition, sp) > RECONCILE_SNAP * RECONCILE_SNAP
               => /\ meshPosition' # sp
                  /\ meshPosition' # meshPosition
                  /\ DistSq(meshPosition', sp) < DistSq(meshPosition, sp)
                  /\ 25 * DistSq(meshPosition', meshPosition) <= DistSq(meshPosition, sp)
         /\ (meshPosition = ClientSpawn /\ sp = <<28850, 0>>)
               => meshPosition' = meshPosition
         /\ (meshPosition = ClientSpawn /\ sp = <<29600, 0>>)
               => meshPosition' = <<28960, 0>>]_vars

\* two corrections toward the position 0.8 units away have been applied:
\* 0.8 -> 0.64 -> 0.512 units of divergence are left
C26_Witness ==
  /\ clientNow = ClientStart
  /\ meshPosition = <<29088, 0>>

Abs(n) == IF n < 0 THEN -n ELSE n
Between(v, a, b) == (a <= v /\ v <= b) \/ (b <= v /\ v <= a)

\* r is a point of the segment from p to q, up to the rounding of each
\* coordinate to the millimetre
OnSegment(r, p, q) ==
  /\ Between(r[1], p[1], q[1])
  /\ Between(r[2], p[2], q[2])
  /\ Abs((r[1] - p[1]) * (q[2] - p[2]) - (r[2] - p[2]) * (q[1] - p[1]))
       <= Abs(q[1] - p[1]) + Abs(q[2] - p[2])

\* r is the point reached at targetTime on the way from the snapshot a to
\* the snapshot b, rounded down to the millimetre; two snapshots taken at
\* the same time leave the whole segment between them
ReachedAt(r, a, b, targetTime) ==
  LET timeDelta == b.timestamp - a.timestamp
      elapsed == targetTime - a.timestamp
  IN IF timeDelta = 0 THEN OnSegment(r, a.position, b.position)
     ELSE \A c \in 1..2 :
        /\ timeDelta * (r[c] - a.position[c]) <= (b.position[c] - a.position[c]) * elapsed
        /\ (b.position[c] - a.position[c]) * elapsed < timeDelta * (r[c] - a.position[c] + 1)

\* the pairs of adjacent snapshots of the buffer B that straddle targetTime
Straddling(B, targetTime) ==
  {i \in 1..(Len(B) - 1) : /\ B[i].timestamp <= targetTime
                            /\ targetTime <= B[i + 1].timestamp}

\* C27: a frame places the remote player at the linear interpolation
\* between the two buffered snapshots that straddle the target time (now -
\* RENDER_DELAY_MS): snapshots at t = 0 at (0, 0) and t = 100 at (1, 0) give
\* (0.5, 0) at the target time 50.  The position always lies on the segment
\* between two adjacent buffered snapshots, and with one buffered snapshot
\* it is that snapshot.
C27_Interpolation ==
  [][\A d \in RemoteGaps :
       (animate(d) /\ remotePosition # <<>>) =>
          LET B == interpolationBuffer
              targetTime == clientNow' - RENDER_DELAY_MS
          IN /\ Len(B) = 1 => remotePosition' = B[1].position
             /\ Len(B) >= 2 =>
                   \E i \in 1..(Len(B) - 1) :
                      OnSegment(remotePosition', B[i].position, B[i + 1].position)
             /\ Straddling(B, targetTime) # {} =>
                   \E i \in Straddling(B, targetTime) :
                      ReachedAt(remotePosition', B[i], B[i + 1], targetTime)
             /\ (/\ Len(B) = 2
                 /\ B[1].position = <<0, 0>> /\ B[2].position = <<1000, 0>>
                 /\ B[2].timestamp = B[1].timestamp + 100
                 /\ targetTime = B[1].timestamp + 50)
                   => remotePosition' = <<500, 0>>]_vars

\* the example of the claim: snapshots 100 ms apart at (0, 0) and (1, 0),
\* a frame 50 ms after the second one, the player drawn at (0.5, 0)
C27_Witness ==
  /\ Len(interpolationBuffer) = 2
  /\ interpolationBuffer[1] = [timestamp |-> ClientStart, position |-> <<0, 0>>]
  /\ interpolationBuffer[2] = [timestamp |-> ClientStart + 100, position |-> <<1000, 0>>]
  /\ clientNow = ClientStart + 150
  /\ remotePosition = <<500, 0>>

\* C28: for a remote player that has received a snapshot, a frame that runs
\* more than EXTRAPOLATION_THRESHOLD and less than MAX_EXTRAPOLATION_TIME
\* after the last snapshot arrived flags the player as extrapolating, and
\* the arrival of a snapshot clears the flag.
C28_Extrapolates ==
  /\ [][\A d \in RemoteGaps :
          (/\ animate(d)
           /\ remotePosition # <<>>
           /\ clientNow' - lastUpdateTime > EXTRAPOLATION_THRESHOLD
           /\ clientNow' - lastUpdateTime < MAX_EXTRAPOLATION_TIME) => isExtrapolating']_vars
  /\ [][\A p \in RemotePositions : updatePlayerInScene(p) => ~isExtrapolating']_vars

\* the step applies a movement or attack input of the player s
InputApplied(s) ==
  /\ s \in DOMAIN players'
  /\ \/ players'[s].x # players[s].x
     \/ players'[s].z # players[s].z
     \/ players'[s].rotation # players[s].rotation
     \/ players'[s].lastAttackTime # players[s].lastAttackTime

\* C29: movement and attack inputs are buffered and applied only inside a
\* tick, after the projectiles have advanced and before the boundary check:
\* a step that changes the position, the rotation or the attack time of a
\* player is a tick of the game loop.
C29_InputsAtTick ==
  [][\A s \in Roster : InputApplied(s) => TickStep]_vars

\* a critical event is pending at the broadcast decision of the tick: the
\* flag was set before the tick, or the tick reports a projectile hit or an
\* out-of-bounds elimination
CriticalPending ==
  \/ needsCriticalBroadcast
  \/ AllArrowHits(notices') # {}
  \/ \E i \in 1..Len(notices') :
        notices'[i].type = "playerEliminated" /\ notices'[i].reason = "out_of_bounds"

\* C30: a tick of an Active match broadcasts one roster snapshot when its
\* tick counter is a multiple of broadcastRate (2) or a critical event is
\* pending, and none otherwise; a tick that broadcasts clears the
\* critical-event flag, so the flag is clear after every tick.
C30_BroadcastCadence ==
  [][TickStep =>
       /\ Active
       /\ tickCounter' = tickCounter + 1
       /\ (tickCounter' % broadcastRate = 0 \/ CriticalPending)
            => /\ Cardinality(Snapshots(notices')) = 1
               /\ ~needsCriticalBroadcast'
       /\ ~(tickCounter' % broadcastRate = 0 \/ CriticalPending)
            => /\ Snapshots(notices') = {}
               /\ ~needsCriticalBroadcast']_vars

\* the first tick, not a multiple of the rate, has broadcast a snapshot
\* because of a critical event, and the flag is cleared
C30_Witness ==
  /\ tickCounter = 1
  /\ Snapshots(notices) # {}
  /\ ~needsCriticalBroadcast


\* a swing sample of s that the handler accepts while s has no swing going
FirstSample(s) ==
  /\ accepted(s)
  /\ players[s].weaponType \in {SWORD, SPEAR}
  /\ ~InSwing(s)
SwingTimersOf(s) == {t \in swingTimers : t.sessionId = s}

\* C31: the cooldown is tested and lastAttackTime stamped only on the first
\* sample of a swing: a first sample that passes the cooldown stamps
\* lastAttackTime = now, sets the is-swinging flag and arms one timer due
\* SWING_CLEANUP_DELAY_MS later, and one that fails it changes nothing.  A
\* later sample is processed though the cooldown has not elapsed (it hits a
\* target in reach that the swing has not hit yet) and leaves
\* lastAttackTime, the flag and the timers as they are.  The flag is set by
\* nothing but an accepted first sample and cleared by nothing but the
\* attacker's timer, a swinging attacker always has its timer pending with
\* due = lastAttackTime + SWING_CLEANUP_DELAY_MS, and every swing (of those
\* that start within MaxElapsed of the start of the clock) returns to idle.
C31_SwingCycle ==
  /\ [][\A s \in Swingers :
          /\ (SwingStep(s) /\ FirstSample(s)) =>
               IF canAttack(players[s], players[s].weaponType, now)
               THEN /\ players'[s].lastAttackTime = now
                    /\ InSwing(s)'
                    /\ swingTimers' = swingTimers \cup
                         {[weaponType |-> players[s].weaponType, sessionId |-> s,
                           due |-> now + SWING_CLEANUP_DELAY_MS]}
               ELSE /\ players' = players
                    /\ UNCHANGED swingVars
          /\ (SwingStep(s) /\ accepted(s) /\ InSwing(s)) =>
               /\ ~canAttack(players[s], players[s].weaponType, now)
               /\ players'[s].lastAttackTime = players[s].lastAttackTime
               /\ InSwing(s)'
               /\ swingTimers' = swingTimers
               /\ \A t \in Roster \ {s} :
                    (/\ players[t].isAlive
                     /\ t \notin SwingHits(s)
                     /\ \E m \in SwingSamples :
                          t \in SeqRange(handleWeaponHitboxAttack(s, m[2], m[1],
                                                                  players, joinOrder)))
                    => players'[t].hp < players[t].hp
          /\ (~InSwing(s) /\ InSwing(s)') =>
               /\ SwingStep(s)
               /\ FirstSample(s)
               /\ canAttack(players[s], players[s].weaponType, now)
          /\ (InSwing(s) /\ ~InSwing(s)') =>
               \E t \in SwingTimersOf(s) : swingCleanup(t)]_vars
  /\ [](\A s \in Swingers :
          InSwing(s) =>
            /\ Cardinality(SwingTimersOf(s)) = 1
            /\ \A t \in SwingTimersOf(s) :
                 /\ t.due = players[s].lastAttackTime + SWING_CLEANUP_DELAY_MS
                 /\ now <= t.due)
  /\ \A s \in Swingers :
       (InSwing(s) /\ now <= StartTime + MaxElapsed) ~> ~InSwing(s)

\* a swing of s1 has just gone back to idle, one swing window after its stamp
C31_Witness ==
  /\ "s1" \in Roster
  /\ ~InSwing("s1")
  /\ players["s1"].isAttacking
  /\ swingTimers = {}
  /\ now = players["s1"].lastAttackTime + SWING_CLEANUP_DELAY_MS

\* a later sample of a swing has hit a player who joined after the first one
LateSampleHit ==
  /\ InSwing("s1")
  /\ "s2" \in SwingHits("s1")
  /\ Len(notices) = 1
  /\ notices[1].type = "playerAttacked"

\* C32: the firing of a swing-cleanup timer changes nothing but the swing
\* tracking of its own attacker.  The step that takes the timer t off the
\* pending timers removes t.sessionId from activeSwings and from
\* swingHitPlayers of t's strategy, leaves every other attacker's flag and
\* hit set as they are, sends nothing, and changes no player record (hp,
\* isAlive, position, lastAttackTime), no projectile and nothing of the
\* match phase, whether the attacker is alive, dead or gone and whether the
\* match is Active or Ended.
C32_CleanupFrame ==
  [][\A t \in swingTimers :
       t \notin swingTimers' =>
         /\ swingTimers' = swingTimers \ {t}
         /\ \A w \in DOMAIN activeSwings :
              /\ activeSwings'[w] =
                   (IF w = t.weaponType THEN activeSwings[w] \ {t.sessionId}
                    ELSE activeSwings[w])
              /\ DOMAIN swingHitPlayers'[w] =
                   (IF w = t.weaponType THEN DOMAIN swingHitPlayers[w] \ {t.sessionId}
                    ELSE DOMAIN swingHitPlayers[w])
              /\ \A a \in DOMAIN swingHitPlayers'[w] :
                   swingHitPlayers'[w][a] = swingHitPlayers[w][a]
         /\ notices' = <<>>
         /\ UNCHANGED <<players, joinOrder, clients, projectiles, countdown,
                        tickCounter, needsCriticalBroadcast, projectileCounter, now>>
         /\ UNCHANGED matchVars]_vars

\* the timer of s1 has fired after s1 left and the match ended, while s2 is
\* in a swing that has hit s1
C32_Witness ==
  /\ gameEnded
  /\ "s1" \in Departed
  /\ players["s1"].isAttacking
  /\ ~InSwing("s1")
  /\ now = players["s1"].lastAttackTime + SWING_CLEANUP_DELAY_MS
  /\ notices = <<>>
  /\ InSwing("s2")
  /\ SwingHits("s2") = {"s1"}

\* C33: a standard attack of a player with the bow that is accepted (the
\* player is alive, the match Active, the cooldown elapsed) adds exactly one
\* projectile: its id is the id of no projectile of the match, its owner is
\* the shooter, distanceTraveled is 0, damage and range are those of the
\* bow; the other projectiles stay as they are and no player's hp or
\* isAlive changes.  A rejected attack leaves the projectiles as they are.
C33_OneProjectile ==
  [][\A s \in Roster :
       (handlePlayerAttack(s) /\ players[s].weaponType = BOW) =>
         IF accepted(s) /\ canAttack(players[s], BOW, now)
         THEN /\ \E id \in DOMAIN projectiles' \ DOMAIN projectiles :
                   /\ DOMAIN projectiles' = DOMAIN projectiles \cup {id}
                   /\ projectiles'[id].ownerId = s
                   /\ projectiles'[id].distanceTraveled = 0
                   /\ projectiles'[id].damage = WEAPONS[BOW].damage
                   /\ projectiles'[id].range = WEAPONS[BOW].range
              /\ \A id \in DOMAIN projectiles : projectiles'[id] = projectiles[id]
              /\ \A t \in Roster : /\ players'[t].hp = players[t].hp
                                   /\ players'[t].isAlive = players[t].isAlive
         ELSE projectiles' = projectiles]_vars

\* the archer has just shot a second arrow while the first is in flight
C33_Witness ==
  /\ \E i \in 1..Len(notices) : notices[i].type = "projectileCreated"
  /\ \E id1, id2 \in DOMAIN projectiles :
       /\ id1 # id2
       /\ projectiles[id1].ownerId = "a1"
       /\ projectiles[id2].ownerId = "a1"
       /\ projectiles[id1].distanceTraveled > 0
       /\ projectiles[id2].distanceTraveled = 0

\* C34: weaponSwingStarted is sent for an attacker only by a step that
\* starts a swing of that attacker (a first sample that passes the
\* cooldown, after which the attacker is swinging), and once in that step;
\* a sample that the cooldown rejects sends no weaponSwingStarted
C34_SwingStarted ==
  [][\A s \in Swingers :
       LET started == {i \in 1..Len(notices') :
                         /\ notices'[i].type = "weaponSwingStarted"
                         /\ notices'[i].a = s}
       IN /\ Cardinality(started) <= 1
          /\ started # {} =>
               /\ SwingStep(s)
               /\ FirstSample(s)
               /\ canAttack(players[s], players[s].weaponType, now)
               /\ InSwing(s)']_vars

\* C35: when a match ends, the last roster snapshot that was broadcast
\* shows the final hp and isAlive of every player.  isAlive never goes back
\* to TRUE, so every snapshot sent before a step lists a player that the
\* step eliminates as alive: the step that ends the match has to send a
\* snapshot that lists every player it eliminates as dead with hp = 0.
C35_FinalSnapshot ==
  [][(~gameEnded /\ gameEnded') =>
       \A t \in Roster :
         Died(t) => \E i \in Snapshots(notices') : ListedDead(notices'[i], t)]_vars

\* the players that are alive
Alive == {s \in Roster : players[s].isAlive}

\* C36: a match never stays Active across a completed tick with at most one
\* player alive: after every tick, an Active match has at least two alive
\* players.  So a match that is Active with at most one player alive (a
\* step killed a player, or the countdown ended with fewer than two alive)
\* is Ended by the first tick that runs.
C36_EndsByNextTick ==
  [][TickStep =>
       /\ gameActive' => Cardinality(Alive') >= 2
       /\ Cardinality(Alive') <= 1 => (gameEnded' /\ ~gameActive')]_vars

\* the first tick has ended a match that became Active with a single player,
\* who is announced as the winner
C36_Witness ==
  /\ gameEnded
  /\ tickCounter = 1
  /\ Roster = {"a1"}
  /\ clients = {"a1"}
  /\ players["a1"].isAlive
  /\ HasNotice(notices, "gameEnded", "a1")

\* the gameEnded messages among the messages seq
Endings(seq) == {i \in 1..Len(seq) : seq[i].type = "gameEnded"}

\* C37: gameEnded is broadcast exactly once per match and the teardown is
\* scheduled exactly once: the step that ends the match, and no other step,
\* sends one gameEnded and schedules one timer.  The winner it names, if
\* any, is alive after the step and is the only player alive, and is what
\* winnerId and winnerName then hold; once the match has ended winnerId and
\* winnerName never change.
C37_EndedOnce ==
  /\ [](endGameTimers = IF gameEnded THEN 1 ELSE 0)
  /\ [][/\ Cardinality(Endings(notices')) = (IF ~gameEnded /\ gameEnded' THEN 1 ELSE 0)
        /\ \A i \in Endings(notices') :
             notices'[i].a # "" =>
               /\ Alive' = {notices'[i].a}
               /\ winnerId' = notices'[i].a
               /\ winnerName' = notices'[i].b
        /\ gameEnded => /\ gameEnded'
                        /\ winnerId' = winnerId
                        /\ winnerName' = winnerName]_vars

\* the match has ended with the archer as the announced winner, and a step
\* after the end has left the winner as it was
C37_Witness ==
  /\ gameEnded
  /\ winnerId = "a1"
  /\ players["a1"].isAlive
  /\ Cardinality(Roster) = 3
  /\ notices = <<>>
  /\ endGameTimers = 1

\* C38: no step raises the hp of a player, no step turns isAlive of a player
\* from FALSE to TRUE, and no step takes a record out of the roster
C38_Monotone ==
  [][/\ Roster \subseteq DOMAIN players'
     /\ \A s \in Roster :
          /\ players'[s].hp <= players[s].hp
          /\ ~players[s].isAlive => ~players'[s].isAlive]_vars

\* an arrow has wounded a2 and a3 has left: its record is kept, dead
C38_Witness ==
  /\ Roster = {"a1", "a2", "a3"}
  /\ players["a2"].isAlive
  /\ players["a2"].hp < PLAYER_MAX_HP
  /\ "a3" \in Departed
  /\ ~players["a3"].isAlive
  /\ players["a3"].hp = 0

\* the cooldown of the weapon of s has elapsed since lastAttackTime of s
CooledDown(s) == canAttack(players[s], players[s].weaponType, now)

\* C39: the two attack modes share one cooldown.  An accepted standard
\* attack and an accepted first swing sample both stamp lastAttackTime =
\* now, both are accepted only when the cooldown has elapsed since the last
\* stamp of either mode, and nothing else changes lastAttackTime: while the
\* cooldown has not elapsed a standard attack changes no player and a first
\* swing sample starts no swing and changes no player.
C39_SharedCooldown ==
  [][\A s \in Swingers :
       /\ (s \in Roster /\ players'[s].lastAttackTime # players[s].lastAttackTime) =>
            /\ CooledDown(s)
            /\ players'[s].lastAttackTime = now
            /\ handlePlayerAttack(s) \/ SwingStep(s)
       /\ (handlePlayerAttack(s) /\ accepted(s)) =>
            IF CooledDown(s) THEN players'[s].lastAttackTime = now
            ELSE players' = players
       /\ (SwingStep(s) /\ FirstSample(s)) =>
            IF CooledDown(s) THEN players'[s].lastAttackTime = now /\ InSwing(s)'
            ELSE players' = players /\ ~InSwing(s)']_vars

\* a swing sample of s1 has been rejected in the millisecond of an accepted
\* standard attack of s1 that wounded s2
C39_Witness ==
  /\ Active
  /\ "s1" \in Roster
  /\ players["s1"].lastAttackTime = now
  /\ ~InSwing("s1")
  /\ SwingTimersOf("s1") = {}
  /\ HasNotice(notices, "weaponSwingStarted", "s1")
  /\ "s2" \in Roster
  /\ players["s2"].hp = PLAYER_MAX_HP - WEAPONS[SPEAR].damage

\* the ids of the arrows that the archer can shoot while the clock runs
FlightIds == 0..(ArrowElapsed \div WEAPONS[BOW].cooldown)

\* C40: every projectile is eventually removed.  Every tick raises
\* distanceTraveled of each projectile it keeps, a projectile in the set has
\* always travelled less than its range, and, with the game loop running,
\* a projectile in the set leaves the set unless the match stops being
\* Active first.
C40_ProjectileRemoved ==
  /\ [][TickStep =>
          \A id \in DOMAIN projectiles \cap DOMAIN projectiles' :
            projectiles'[id].distanceTraveled > projectiles[id].distanceTraveled]_vars
  /\ [](\A id \in DOMAIN projectiles :
          /\ id \in FlightIds
          /\ projectiles[id].distanceTraveled < projectiles[id].range)
  /\ \A id \in FlightIds :
       (id \in DOMAIN projectiles) ~> (id \notin DOMAIN projectiles \/ ~Active)

\* both arrows of the archer have left the set without a hit, and the match
\* is still Active
C40_Witness ==
  /\ Active
  /\ projectileCounter = 2
  /\ DOMAIN projectiles = {}
  /\ players["a2"].hp = PLAYER_MAX_HP
=============================================================================
